---- MODULE Spec2Model ----
(***************************************************************************)
(* A model of ask-github: the agentic tool-use loop of ask() in            *)
(* src/ask_github/__init__.py, its context resolution (platform, URL,      *)
(* token, ref), the tool dispatcher execute_tool(), and the thread pool    *)
(* that runs one round's tool calls.                                       *)
(*                                                                         *)
(* Text is modelled as a sequence of atoms.  An atom stands for one        *)
(* character or for a run of characters that no operation looks into       *)
(* ("/" and " " are always atoms of their own).                            *)
(***************************************************************************)
EXTENDS Integers, Sequences, FiniteSets, TLC

VARIABLES
    \* ---- the arguments of ask()
    repo_url,        \* [hostname, path]: what urlparse(repo_url) yields
    max_iterations,
    max_workers,
    token,           \* the explicit token argument, or None
    github_token,    \* the deprecated token argument, or None
    env,             \* the process environment: [GITHUB_TOKEN, GITLAB_TOKEN]
    \* ---- the locals of ask()
    pc,              \* where the control thread stands
    platform,
    owner,
    repo,
    ref,
    auth_token,
    messages,        \* the conversation
    iteration,       \* the loop variable of "for iteration in range(max_iterations)"
    repo_info,       \* what get_repo_info answered in _get_ref
    message,         \* response.choices[0].message of the current round
    futures,         \* the round's futures: one task per tool call
    outcome,         \* how ask() ended: [kind |-> "none" | "return" | "raise", ...]
    \* ---- what the collaborators saw
    lookups,         \* get_repo_info calls made by _get_ref
    completions,     \* completion() calls made
    \* ---- the command line: main() of cli.py
    argv,            \* sys.argv[1:]
    filtered_argv,   \* what parse_llm_args leaves for argparse
    llm_config,      \* the overrides parse_llm_args collects
    litellm_config,  \* the **litellm_config of ask()
    cli_pc,          \* where main() stands; "none" when ask() is called as a library
    stdout,          \* the lines printed
    stderr,          \* the lines written to the error stream
    exit_code,       \* the exit status of the process, None while it runs
    \* ---- the tree listing: list_tree() of __init__.py and of the adapters
    server,          \* the pages the platform serves for the tree
    page,            \* the page gitlab.list_tree asks for next
    all_items,       \* the items gitlab.list_tree has collected
    requested        \* the pages requested so far, in the order of the requests

vars == <<repo_url, max_iterations, max_workers, token, github_token, env,
          pc, platform, owner, repo, ref, auth_token, repo_info, messages,
          iteration, message, futures, outcome, lookups, completions,
          argv, filtered_argv, llm_config, litellm_config, cli_pc, stdout,
          stderr, exit_code, server, page, all_items, requested>>

\* The state of main(), which no step of ask() touches
cli == <<argv, filtered_argv, llm_config, litellm_config, cli_pc, stdout,
         stderr, exit_code>>

\* The state of list_tree(), which no step of ask() or main() touches
tree == <<server, page, all_items, requested>>

inputs == <<repo_url, max_iterations, max_workers, token, github_token, env, cli,
            tree>>
context == <<platform, owner, repo, ref, auth_token, repo_info>>

-----------------------------------------------------------------------------
(* Bounds of the model *)

\* max_iterations is drawn from 0..MaxIterations
MaxIterations == 2
\* max_workers is drawn from 0..MaxWorkers
MaxWorkers == 2
\* the tool calls the model may request in one invocation, over all rounds
MaxCalls == 3
\* the content blocks of one assistant response
MaxBlocks == 3
\* the path segments of a repository URL
MaxSegments == 5

-----------------------------------------------------------------------------
(* Values *)

\* Python's None, for a value that is otherwise text: a text no string equals
None == <<"<None>">>

\* Python truthiness of an optional string
Truthy(v) == v # None /\ v # <<>>

\* Python's "a or b"
Or(a, b) == IF Truthy(a) THEN a ELSE b

Range(s) == {s[i] : i \in 1..Len(s)}

-----------------------------------------------------------------------------
(* URL parsing: github.parse_repo_url, gitlab.parse_repo_url *)

RECURSIVE LStrip(_)
LStrip(s) == IF s # <<>> /\ Head(s) = "/" THEN LStrip(Tail(s)) ELSE s

RECURSIVE RStrip(_)
RStrip(s) ==
    IF s # <<>> /\ s[Len(s)] = "/" THEN RStrip(SubSeq(s, 1, Len(s) - 1)) ELSE s

\* str.strip("/")
Strip(s) == RStrip(LStrip(s))

\* str.split("/"): the segments between the slashes; "" splits to [""]
RECURSIVE Split(_)
Split(s) ==
    IF \A i \in 1..Len(s) : s[i] # "/"
    THEN <<s>>
    ELSE LET i == CHOOSE k \in 1..Len(s) :
                      s[k] = "/" /\ \A j \in 1..(k - 1) : s[j] # "/"
         IN  <<SubSeq(s, 1, i - 1)>> \o Split(SubSeq(s, i + 1, Len(s)))

RefMarkers == {<<"tree">>, <<"blob">>, <<"commit">>}

\* A mutant of GithubParse: the ref is taken one segment too early
GithubParseOffByOne(url) ==
    LET path_parts == Split(Strip(url.path))
    IN  IF Len(path_parts) < 2
        THEN [ok |-> FALSE]
        ELSE [ok |-> TRUE, owner |-> path_parts[1], repo |-> path_parts[2],
              ref |-> IF Len(path_parts) >= 4 /\ path_parts[3] \in RefMarkers
                      THEN path_parts[3] ELSE None]

\* A mutant of GithubParse: one segment is enough, the repository then empty
GithubParseOneSegment(url) ==
    LET path_parts == Split(Strip(url.path))
    IN  IF Len(path_parts) < 1
        THEN [ok |-> FALSE]
        ELSE [ok |-> TRUE, owner |-> path_parts[1],
              repo |-> IF Len(path_parts) >= 2 THEN path_parts[2] ELSE <<>>,
              ref |-> IF Len(path_parts) >= 4 /\ path_parts[3] \in RefMarkers
                      THEN path_parts[4] ELSE None]

GithubParse(url) ==
    LET path_parts == Split(Strip(url.path))
    IN  IF Len(path_parts) < 2
        THEN [ok |-> FALSE]
        ELSE [ok |-> TRUE, owner |-> path_parts[1], repo |-> path_parts[2],
              ref |-> IF Len(path_parts) >= 4 /\ path_parts[3] \in RefMarkers
                      THEN path_parts[4] ELSE None]

GitlabParse(url) ==
    LET path_parts == Split(Strip(url.path))
    IN  IF Len(path_parts) < 2
        THEN [ok |-> FALSE]
        ELSE [ok |-> TRUE, owner |-> path_parts[1], repo |-> path_parts[2],
              ref |-> IF /\ Len(path_parts) >= 5
                         /\ path_parts[3] = <<"-">>
                         /\ path_parts[4] \in RefMarkers
                      THEN path_parts[5] ELSE None]

\* "needle in hostname", the hostname a sequence of atoms
Contains(hostname, needle) == \E i \in 1..Len(hostname) : hostname[i] = needle

DetectPlatform(url) ==
    IF Contains(url.hostname, "github.com") THEN "github"
    ELSE IF Contains(url.hostname, "gitlab.com") THEN "gitlab"
    ELSE "github"

\* module.parse_repo_url of the module _get_module(platform) selects
ParseRepoUrl(plat, url) ==
    IF plat = "github" THEN GithubParse(url) ELSE GitlabParse(url)

\* A mutant of GetAuthToken: GITHUB_TOKEN is read on every platform
GetAuthTokenGithubVariable(plat, tok, gh_tok, environ) ==
    LET auth == Or(tok, gh_tok)
    IN  IF ~Truthy(auth) THEN environ.GITHUB_TOKEN ELSE auth

GetAuthToken(plat, tok, gh_tok, environ) ==
    LET auth == Or(tok, gh_tok)
    IN  IF ~Truthy(auth)
        THEN IF plat = "github" THEN environ.GITHUB_TOKEN ELSE environ.GITLAB_TOKEN
        ELSE auth

\* repo_info.get("default_branch", "main")
DefaultBranch(info) ==
    IF "default_branch" \in DOMAIN info THEN info.default_branch
    ELSE <<"main">>

-----------------------------------------------------------------------------
(* The tool dispatcher: execute_tool, and the adapters' signatures *)

ToolNames == {"get_repo_info", "read_file", "list_directory", "list_tree", "search_code"}

tools_with_ref == {"read_file", "list_directory", "list_tree"}

\* The parameters of the adapter functions without a default value
Required(op) ==
    CASE op = "get_repo_info"  -> {"owner", "repo"}
      [] op = "read_file"      -> {"owner", "repo", "path"}
      [] op = "list_directory" -> {"owner", "repo", "path"}
      [] op = "list_tree"      -> {"owner", "repo", "ref"}
      [] op = "search_code"    -> {"owner", "repo", "query"}

\* All the parameters of the adapter functions
Allowed(op) ==
    CASE op = "get_repo_info"  -> {"owner", "repo", "github_token"}
      [] op = "read_file"      -> {"owner", "repo", "path", "ref", "github_token"}
      [] op = "list_directory" -> {"owner", "repo", "path", "ref", "github_token"}
      [] op = "list_tree"      -> {"owner", "repo", "ref", "recursive", "github_token"}
      [] op = "search_code"    -> {"owner", "repo", "query", "per_page", "page",
                                   "github_token"}

\* d with d[k] = v: {**d, k: v}
With(d, k, v) == [x \in DOMAIN d \cup {k} |-> IF x = k THEN v ELSE d[x]]

\* module.op(**tool_args): Python binds the keywords to the parameters first
AdapterCall(plat, op, tool_args) ==
    IF Required(op) \subseteq DOMAIN tool_args /\ DOMAIN tool_args \subseteq Allowed(op)
    THEN [kind |-> "adapter", module |-> plat, op |-> op, args |-> tool_args]
    ELSE [kind |-> "raise", error |-> "TypeError"]

\* A mutant of ExecuteTool: a token among the arguments wins over the resolved
\* token, {"github_token": token, **arguments}
ExecuteToolArgumentsWin(tool_name, arguments, plat, tok, default_ref) ==
    LET tool_args == IF "github_token" \in DOMAIN arguments THEN arguments
                     ELSE With(arguments, "github_token", tok)
        with_ref  == IF /\ tool_name \in tools_with_ref
                        /\ "ref" \notin DOMAIN arguments
                        /\ Truthy(default_ref)
                     THEN With(tool_args, "ref", default_ref)
                     ELSE tool_args
    IN  IF tool_name \in ToolNames
        THEN AdapterCall(plat, tool_name, with_ref)
        ELSE [kind |-> "raise", error |-> "Unknown tool"]

\* A mutant of ExecuteTool: a name that is none of the five falls through to
\* the last branch of the dispatch, search_code
ExecuteToolFallsThrough(tool_name, arguments, plat, tok, default_ref) ==
    LET tool_args == With(arguments, "github_token", tok)
        with_ref  == IF /\ tool_name \in tools_with_ref
                        /\ "ref" \notin DOMAIN arguments
                        /\ Truthy(default_ref)
                     THEN With(tool_args, "ref", default_ref)
                     ELSE tool_args
    IN  IF tool_name \in ToolNames
        THEN AdapterCall(plat, tool_name, with_ref)
        ELSE AdapterCall(plat, "search_code", with_ref)

\* A mutant of ExecuteTool: the default ref replaces a ref the caller gave
ExecuteToolForcedRef(tool_name, arguments, plat, tok, default_ref) ==
    LET tool_args == With(arguments, "github_token", tok)
        with_ref  == IF tool_name \in tools_with_ref /\ Truthy(default_ref)
                     THEN With(tool_args, "ref", default_ref)
                     ELSE tool_args
    IN  IF tool_name \in ToolNames
        THEN AdapterCall(plat, tool_name, with_ref)
        ELSE [kind |-> "raise", error |-> "Unknown tool"]

\* A mutant of ExecuteTool: the owner and the repository resolved from the
\* URL replace those of the arguments
ExecuteToolPinsRepository(tool_name, arguments, plat, tok, default_ref) ==
    LET pinned    == With(With(arguments, "owner", owner), "repo", repo)
        tool_args == With(pinned, "github_token", tok)
        with_ref  == IF /\ tool_name \in tools_with_ref
                        /\ "ref" \notin DOMAIN arguments
                        /\ Truthy(default_ref)
                     THEN With(tool_args, "ref", default_ref)
                     ELSE tool_args
    IN  IF tool_name \in ToolNames
        THEN AdapterCall(plat, tool_name, with_ref)
        ELSE [kind |-> "raise", error |-> "Unknown tool"]

\* execute_tool up to the adapter call it makes, or the error it raises
ExecuteTool(tool_name, arguments, plat, tok, default_ref) ==
    LET tool_args == With(arguments, "github_token", tok)
        with_ref  == IF /\ tool_name \in tools_with_ref
                        /\ "ref" \notin DOMAIN arguments
                        /\ Truthy(default_ref)
                     THEN With(tool_args, "ref", default_ref)
                     ELSE tool_args
    IN  IF tool_name \in ToolNames
        THEN AdapterCall(plat, tool_name, with_ref)
        ELSE [kind |-> "raise", error |-> "Unknown tool"]

\* json.loads(tool_call.function.arguments), then execute_tool: the first part
\* of execute_single_tool, up to the adapter call or the first exception.
\* A JSON text that is no object fails in execute_tool at arguments.items().
Dispatch(tc, plat, tok, default_ref) ==
    IF tc.arguments.json = "malformed"
    THEN [kind |-> "raise", error |-> "JSONDecodeError"]
    ELSE IF tc.arguments.json # "object"
    THEN [kind |-> "raise", error |-> "AttributeError"]
    ELSE ExecuteTool(tc.name, tc.arguments.value, plat, tok, default_ref)

-----------------------------------------------------------------------------
(* The answer text of a terminal response: ask, lines 295-301 *)

IsTextBlock(block) == "type" \in DOMAIN block /\ block.type = "text"

\* block.get("text", "")
BlockText(block) == IF "text" \in DOMAIN block THEN block.text ELSE <<>>

RECURSIVE TextParts(_)
TextParts(blocks) ==
    IF blocks = <<>> THEN <<>>
    ELSE (IF IsTextBlock(Head(blocks)) THEN <<BlockText(Head(blocks))>> ELSE <<>>)
         \o TextParts(Tail(blocks))

\* " ".join(parts)
RECURSIVE JoinSpace(_)
JoinSpace(parts) ==
    IF parts = <<>> THEN <<>>
    ELSE IF Len(parts) = 1 THEN parts[1]
    ELSE parts[1] \o <<" ">> \o JoinSpace(Tail(parts))

\* A mutant of FinalText: the parts are concatenated with nothing between them
RECURSIVE Concat(_)
Concat(parts) == IF parts = <<>> THEN <<>> ELSE Head(parts) \o Concat(Tail(parts))

FinalTextNoSeparator(content) ==
    IF content.type = "str" THEN content.text
    ELSE IF content.type = "list" THEN Concat(TextParts(content.blocks))
    ELSE <<>>

FinalText(content) ==
    IF content.type = "str" THEN content.text
    ELSE IF content.type = "list" THEN JoinSpace(TextParts(content.blocks))
    ELSE <<>>

\* The content list of the assistant message kept in the conversation:
\* ask, lines 279-286
AssistantContent(content) ==
    IF content.type = "str" /\ content.text # <<>>
    THEN <<[type |-> "text", text |-> content.text]>>
    ELSE IF content.type = "list" THEN content.blocks
    ELSE <<>>

SENTINEL == <<"Maximum iterations reached. Unable to provide a complete answer.">>

-----------------------------------------------------------------------------
(* Messages *)

platform_name(plat) == IF plat = "github" THEN "GitHub" ELSE "GitLab"

\* The conversation ask starts with: lines 257-266
InitialMessages(plat, o, r, rf, workers) ==
    << [role |-> "system", platform_name |-> platform_name(plat), owner |-> o,
        repo |-> r, ref |-> rf, max_workers |-> workers],
       [role |-> "user", content |-> <<"prompt">>] >>

\* json.dumps(result, indent=2)
ResultText == <<"json.dumps(result)">>

\* f"Error executing tool: {str(e)}"
ErrorText == <<"Error executing tool: ", "str(e)">>

IsErrorText(text) == text # <<>> /\ text[1] = "Error executing tool: "

\* What execute_single_tool returns when the tool returned
OnToolResult(id) ==
    [kind |-> "message",
     message |-> [role |-> "tool", tool_call_id |-> id, content |-> ResultText]]

\* A mutant of OnToolError: no try/except, the exception leaves the task
OnToolErrorPropagates(id) == [kind |-> "exception", error |-> "tool"]

\* What execute_single_tool returns when anything in it raised
OnToolError(id) ==
    [kind |-> "message",
     message |-> [role |-> "tool", tool_call_id |-> id, content |-> ErrorText]]

-----------------------------------------------------------------------------
(* The inputs the model draws from *)

RECURSIVE SeqsUpTo(_, _)
SeqsUpTo(S, n) ==
    IF n = 0 THEN {<<>>}
    ELSE LET shorter == SeqsUpTo(S, n - 1)
         IN  shorter \cup {Append(q, x) : q \in shorter, x \in S}

Url(hostname, path) == [hostname |-> hostname, path |-> path]

\* The repository URLs of the end-to-end specification
UrlsAsk ==
    { Url(<<"gitlab.com">>, <<"/", "o", "/", "r">>),
      Url(<<"github.com">>, <<"/", "o", "/", "r", "/", "tree", "/", "dev">>),
      Url(<<"github.com">>, <<"/", "o">>),
      Url(<<"gitlab.com">>, <<"/", "o", "/">>),
      Url(<<"github.com">>, <<>>),
      Url(<<"gitlab.com">>, <<"/">>) }

\* The segments the paths of the URLs of context resolution are made of
SegmentMenu == {<<"o">>, <<"dev">>, <<"tree">>, <<"blob">>, <<"-">>}

\* "/" + "/".join(segments)
RECURSIVE SlashPath(_)
SlashPath(segments) ==
    IF segments = <<>> THEN <<"/">>
    ELSE IF Len(segments) = 1 THEN <<"/">> \o segments[1]
    ELSE SlashPath(SubSeq(segments, 1, Len(segments) - 1))
         \o <<"/">> \o segments[Len(segments)]

HostMenu == {<<"github.com">>, <<"gitlab.com">>, <<"example.org">>}

\* The repository URLs of the specification of context resolution: every path
\* of up to MaxSegments segments, with and without a trailing slash
UrlsAll ==
    { Url(h, SlashPath(segs) \o tail) :
        h \in HostMenu, segs \in SeqsUpTo(SegmentMenu, MaxSegments),
        tail \in {<<>>, <<"/">>} }

\* What the default-branch lookup of _get_ref may answer
RepoInfos ==
    { [default_branch |-> <<"trunk">>],
      [default_branch |-> None],
      [id |-> <<"1">>] }

Json(value) == [json |-> "object", value |-> value]

\* The tool calls a response may carry
ToolCallMenu ==
    { [name |-> "read_file",
       arguments |-> Json([owner |-> <<"o">>, repo |-> <<"r">>, path |-> <<"p">>])],
      [name |-> "list_directory",
       arguments |-> Json([owner |-> <<"o">>, repo |-> <<"r">>, path |-> <<"p">>,
                           ref |-> <<"feat">>])],
      [name |-> "list_tree",
       arguments |-> Json([owner |-> <<"o">>, repo |-> <<"r">>])],
      [name |-> "get_repo_info",
       arguments |-> Json([owner |-> <<"o">>, repo |-> <<"r">>])],
      [name |-> "delete_repo",
       arguments |-> Json([owner |-> <<"o">>, repo |-> <<"r">>])],
      [name |-> "read_file",
       arguments |-> [json |-> "malformed"]] }

\* The tool calls of the specification of the dispatcher: those of
\* ToolCallMenu, calls that bring a token of their own, under the adapters'
\* keyword and under another one, the fifth tool, and more unknown names
ToolCallsAll ==
    ToolCallMenu \cup
    { [name |-> "read_file",
       arguments |-> Json([owner |-> <<"o">>, repo |-> <<"r">>, path |-> <<"p">>,
                           github_token |-> <<"tokM">>])],
      [name |-> "get_repo_info",
       arguments |-> Json([owner |-> <<"x">>, repo |-> <<"y">>,
                           github_token |-> None])],
      [name |-> "list_tree",
       arguments |-> Json([owner |-> <<"o">>, repo |-> <<"r">>, ref |-> <<"feat">>,
                           token |-> <<"tokM">>])],
      [name |-> "search_code",
       arguments |-> Json([owner |-> <<"o">>, repo |-> <<"r">>, query |-> <<"q">>])],
      [name |-> "",
       arguments |-> Json([owner |-> <<"o">>, repo |-> <<"r">>])],
      [name |-> "READ_FILE",
       arguments |-> Json([owner |-> <<"o">>, repo |-> <<"r">>, path |-> <<"p">>])] }

\* The content blocks of a response whose content is a list
BlockMenu ==
    { [type |-> "text", text |-> <<"a">>],
      [type |-> "text", text |-> <<"b", " ", "c">>],
      [type |-> "text", text |-> <<>>],
      [type |-> "text"],
      [type |-> "image", text |-> <<"x">>],
      [text |-> <<"y">>] }

\* message.content of a terminal response, in the end-to-end specification
FinalContents ==
    { [type |-> "none"],
      [type |-> "str", text |-> <<"a", " ", "b">>],
      [type |-> "list", blocks |-> <<[type |-> "text", text |-> <<"a">>],
                                     [type |-> "image", text |-> <<"x">>],
                                     [type |-> "text", text |-> <<"b">>]>>] }

\* message.content of a terminal response, in the specification of the answer
AnswerContents ==
    {[type |-> "none"]}
    \cup {[type |-> "str", text |-> t] : t \in {<<>>, <<"a">>, <<"a", " ", "b">>}}
    \cup {[type |-> "list", blocks |-> b] : b \in SeqsUpTo(BlockMenu, MaxBlocks)}

\* message.content of a response that also carries tool calls
RoundContents ==
    { [type |-> "none"], [type |-> "str", text |-> <<"t">>] }

-----------------------------------------------------------------------------
(* The state after construction *)

\* An empty dict
EmptyConfig == [k \in {} |-> TRUE]

\* ask() called as a library: no command line
NoCli ==
    /\ argv = <<>>
    /\ filtered_argv = <<>>
    /\ llm_config = EmptyConfig
    /\ litellm_config = EmptyConfig
    /\ cli_pc = "none"
    /\ stdout = <<>>
    /\ stderr = <<>>
    /\ exit_code = None

\* No tree listing is asked for
NoTree ==
    /\ server = <<>>
    /\ page = 1
    /\ all_items = <<>>
    /\ requested = <<>>

NoOutcome == [kind |-> "none"]
NoInfo == [none |-> TRUE]
NoMessage == [content |-> [type |-> "none"], tool_calls |-> <<>>]

InitLocals ==
    /\ pc = "start"
    /\ platform = "unset"
    /\ owner = None
    /\ repo = None
    /\ ref = None
    /\ auth_token = None
    /\ messages = <<>>
    /\ iteration = 0
    /\ repo_info = NoInfo
    /\ message = NoMessage
    /\ futures = <<>>
    /\ outcome = NoOutcome
    /\ lookups = 0
    /\ completions = 0

\* ask() called as a library, about to run
InitLibrary ==
    /\ InitLocals
    /\ NoCli
    /\ NoTree

Init ==
    /\ repo_url \in UrlsAsk
    /\ max_iterations \in 0..MaxIterations
    /\ max_workers \in 0..MaxWorkers
    /\ token = <<"tokA">>
    /\ github_token = None
    /\ env = [GITHUB_TOKEN |-> None, GITLAB_TOKEN |-> None]
    /\ InitLibrary

-----------------------------------------------------------------------------
(* Context resolution: ask, lines 232-266 *)

Raise(error) ==
    /\ pc' = "raised"
    /\ outcome' = [kind |-> "raise", error |-> error]

Return(value) ==
    /\ pc' = "returned"
    /\ outcome' = [kind |-> "return", value |-> value]

\* detect_platform, parse_repo_url, _get_auth_token, and _get_ref up to its
\* get_repo_info call (a ref in the URL: to the loop)
Resolve ==
    /\ pc = "start"
    /\ LET plat   == DetectPlatform(repo_url)
           parsed == ParseRepoUrl(plat, repo_url)
       IN  /\ platform' = plat
           /\ IF ~parsed.ok
              THEN /\ Raise("ValueError: Invalid URL")
                   /\ UNCHANGED <<owner, repo, ref, auth_token, messages, lookups>>
              ELSE /\ owner' = parsed.owner
                   /\ repo' = parsed.repo
                   /\ auth_token' = GetAuthToken(plat, token, github_token, env)
                   /\ ref' = parsed.ref
                   /\ UNCHANGED outcome
                   /\ IF parsed.ref = None
                      THEN /\ pc' = "lookup"
                           /\ lookups' = lookups + 1
                           /\ UNCHANGED messages
                      ELSE /\ pc' = "loop"
                           /\ messages' = InitialMessages(plat, parsed.owner,
                                              parsed.repo, parsed.ref, max_workers)
                           /\ UNCHANGED lookups
    /\ UNCHANGED <<inputs, repo_info, iteration, message, futures, completions>>

\* module.get_repo_info returns in _get_ref, with one of infos
LookupReturnsFrom(infos) ==
    /\ pc = "lookup"
    /\ \E info \in infos :
          /\ repo_info' = info
          /\ ref' = DefaultBranch(info)
          /\ messages' = InitialMessages(platform, owner, repo,
                             DefaultBranch(info), max_workers)
    /\ pc' = "loop"
    /\ UNCHANGED <<inputs, platform, owner, repo, auth_token, iteration, message,
                   futures, outcome, lookups, completions>>

LookupReturns == LookupReturnsFrom(RepoInfos)

\* The lookup answers with the default branch trunk
LookupReturnsTrunk == LookupReturnsFrom({[default_branch |-> <<"trunk">>]})

\* module.get_repo_info raises (response.raise_for_status) in _get_ref
LookupRaises ==
    /\ pc = "lookup"
    /\ Raise("HTTPError: get_repo_info")
    /\ UNCHANGED <<inputs, context, messages, iteration, message, futures,
                   lookups, completions>>

-----------------------------------------------------------------------------
(* The agentic loop: ask, lines 269-332 *)

NoCall == [kind |-> "none"]
NoRequest == [name |-> "none"]
NoReturn == [kind |-> "none"]

\* The future executor.submit returns: a task not yet run.  request and call
\* are what the task read and the adapter call it made, or the exception
\* raised before an adapter call, until the result is collected
NewTask(id) ==
    [st |-> "pending", req |-> id, request |-> NoRequest, call |-> NoCall,
     failed |-> FALSE, ret |-> NoReturn]

RECURSIVE CountCalls(_)
CountCalls(msgs) ==
    IF msgs = <<>> THEN 0
    ELSE (IF "tool_calls" \in DOMAIN Head(msgs) THEN Len(Head(msgs).tool_calls) ELSE 0)
         + CountCalls(Tail(msgs))

Executing(fs) == {i \in DOMAIN fs : fs[i].st = "running"}

\* A mutant of SendCompletion: the loop runs once more than max_iterations
SendCompletionOnceMore ==
    /\ pc = "loop"
    /\ iteration <= max_iterations
    /\ pc' = "completion"
    /\ completions' = completions + 1
    /\ UNCHANGED <<inputs, context, messages, iteration, message, futures,
                   outcome, lookups>>

\* for iteration in range(max_iterations): completion(messages=messages, ...)
SendCompletion ==
    /\ pc = "loop"
    /\ iteration < max_iterations
    /\ pc' = "completion"
    /\ completions' = completions + 1
    /\ UNCHANGED <<inputs, context, messages, iteration, message, futures,
                   outcome, lookups>>

\* A mutant of ReturnSentinel: the exhausted budget is an exception
ReturnSentinelRaises ==
    /\ pc = "loop"
    /\ iteration >= max_iterations
    /\ Raise("Maximum iterations reached")
    /\ UNCHANGED <<inputs, context, messages, iteration, message, futures,
                   lookups, completions>>

\* The loop ends without an answer: line 332
ReturnSentinel ==
    /\ pc = "loop"
    /\ iteration >= max_iterations
    /\ Return(SENTINEL)
    /\ UNCHANGED <<inputs, context, messages, iteration, message, futures,
                   lookups, completions>>

\* A mutant of CompletionRaises: the failed request is sent again
CompletionRaisesRetried ==
    /\ pc = "completion"
    /\ pc' = "loop"
    /\ UNCHANGED <<inputs, context, messages, iteration, message, futures,
                   outcome, lookups, completions>>

\* completion() raises
CompletionRaises ==
    /\ pc = "completion"
    /\ Raise("completion")
    /\ UNCHANGED <<inputs, context, messages, iteration, message, futures,
                   lookups, completions>>

\* A mutant of ReceiveFinalFrom: the answer is kept and the loop goes on
ReceiveFinalContinues(contents) ==
    /\ pc = "completion"
    /\ \E content \in contents :
          /\ message' = [content |-> content, tool_calls |-> <<>>]
          /\ messages' = Append(messages, [role |-> "assistant",
                                           content |-> AssistantContent(content)])
    /\ iteration' = iteration + 1
    /\ pc' = "loop"
    /\ UNCHANGED <<inputs, context, futures, outcome, lookups, completions>>

\* A response without tool calls, its content one of contents: lines 292-301
ReceiveFinalFrom(contents) ==
    /\ pc = "completion"
    /\ \E content \in contents :
          /\ message' = [content |-> content, tool_calls |-> <<>>]
          /\ messages' = Append(messages, [role |-> "assistant",
                                           content |-> AssistantContent(content)])
          /\ Return(FinalText(content))
    /\ UNCHANGED <<inputs, context, iteration, futures, lookups, completions>>

ReceiveFinal == ReceiveFinalFrom(FinalContents)

ReceiveAnswer == ReceiveFinalFrom(AnswerContents)

\* A mutant of ReceiveToolCalls: a response with text is taken for the answer,
\* tool calls or not
ReceiveToolCallsReturnsText ==
    /\ pc = "completion"
    /\ \E content \in RoundContents, n \in 1..(MaxCalls - CountCalls(messages)) :
          LET ids == [j \in 1..n |-> <<iteration, j>>]
          IN  /\ message' = [content |-> content, tool_calls |-> ids]
              /\ messages' = Append(messages, [role |-> "assistant",
                                               content |-> AssistantContent(content),
                                               tool_calls |-> ids])
              /\ IF content.type = "str"
                 THEN Return(content.text)
                 ELSE pc' = "pool" /\ UNCHANGED outcome
    /\ futures' = <<>>
    /\ UNCHANGED <<inputs, context, iteration, lookups, completions>>

\* A mutant of ReceiveToolCalls: the earlier rounds are dropped from the
\* conversation
ReceiveToolCallsTrims ==
    /\ pc = "completion"
    /\ \E content \in RoundContents, n \in 1..(MaxCalls - CountCalls(messages)) :
          LET ids == [j \in 1..n |-> <<iteration, j>>]
          IN  /\ message' = [content |-> content, tool_calls |-> ids]
              /\ messages' = Append(SubSeq(messages, 1, 2),
                                    [role |-> "assistant",
                                     content |-> AssistantContent(content),
                                     tool_calls |-> ids])
    /\ futures' = <<>>
    /\ pc' = "pool"
    /\ UNCHANGED <<inputs, context, iteration, outcome, lookups, completions>>

\* A response with tool calls: lines 289-291.  The ids are the endpoint's, one
\* per request; what a request asks for is drawn when its task reads it.
ReceiveToolCalls ==
    /\ pc = "completion"
    /\ \E content \in RoundContents, n \in 1..(MaxCalls - CountCalls(messages)) :
          LET ids == [j \in 1..n |-> <<iteration, j>>]
          IN  /\ message' = [content |-> content, tool_calls |-> ids]
              /\ messages' = Append(messages, [role |-> "assistant",
                                               content |-> AssistantContent(content),
                                               tool_calls |-> ids])
    /\ futures' = <<>>
    /\ pc' = "pool"
    /\ UNCHANGED <<inputs, context, iteration, outcome, lookups, completions>>

\* with ThreadPoolExecutor(max_workers=max_workers): the constructor raises
\* ValueError unless max_workers > 0
CreatePool ==
    /\ pc = "pool"
    /\ IF max_workers <= 0
       THEN Raise("ValueError: max_workers must be greater than 0")
       ELSE pc' = "submit" /\ UNCHANGED outcome
    /\ UNCHANGED <<inputs, context, messages, iteration, message, futures,
                   lookups, completions>>

\* executor.submit(execute_single_tool, tc), for the next tc of message.tool_calls
Submit ==
    /\ pc = "submit"
    /\ LET j == Len(futures) + 1
       IN  /\ futures' = Append(futures, NewTask(message.tool_calls[j]))
           /\ pc' = IF j = Len(message.tool_calls) THEN "collect" ELSE "submit"
    /\ UNCHANGED <<inputs, context, messages, iteration, message, outcome,
                   lookups, completions>>

\* A mutant of WorkerAvailable: the pool starts a thread for every task
WorkerAlwaysAvailable(fs, workers) == TRUE

\* The pool runs at most max_workers tasks at a time
WorkerAvailable(fs, workers) == Cardinality(Executing(fs)) < workers

\* A worker thread takes the oldest pending task and runs execute_single_tool
\* up to the adapter call, or to the end when something raises before it; the
\* request is one of calls
StartTaskFrom(i, calls) ==
    /\ i \in DOMAIN futures
    /\ futures[i].st = "pending"
    /\ \A j \in 1..(i - 1) : futures[j].st # "pending"
    /\ WorkerAvailable(futures, max_workers)
    /\ \E tc \in calls :
          LET d == Dispatch(tc, platform, auth_token, ref)
          IN  futures' = [futures EXCEPT ![i] =
                  IF d.kind = "adapter"
                  THEN [@ EXCEPT !.st = "running", !.request = tc, !.call = d]
                  ELSE [@ EXCEPT !.st = "done", !.request = tc, !.call = d,
                                 !.failed = TRUE,
                                 !.ret = OnToolError(futures[i].req)]]
    /\ UNCHANGED <<inputs, context, pc, messages, iteration, message, outcome,
                   lookups, completions>>

StartTask(i) == StartTaskFrom(i, ToolCallMenu)

StartAnyTask(i) == StartTaskFrom(i, ToolCallsAll)

\* A mutant of AdapterReturns: the worker thread appends its tool message
AdapterReturnsAppends(i) ==
    /\ i \in DOMAIN futures
    /\ futures[i].st = "running"
    /\ futures' = [futures EXCEPT ![i] =
           [@ EXCEPT !.st = "done", !.request = NoRequest, !.call = NoCall,
                     !.ret = OnToolResult(futures[i].req)]]
    /\ messages' = Append(messages, OnToolResult(futures[i].req).message)
    /\ UNCHANGED <<inputs, context, pc, iteration, message, outcome,
                   lookups, completions>>

\* The adapter call of a running task returns
AdapterReturns(i) ==
    /\ i \in DOMAIN futures
    /\ futures[i].st = "running"
    /\ futures' = [futures EXCEPT ![i] =
           [@ EXCEPT !.st = "done", !.request = NoRequest, !.call = NoCall,
                     !.ret = OnToolResult(futures[i].req)]]
    /\ UNCHANGED <<inputs, context, pc, messages, iteration, message, outcome,
                   lookups, completions>>

\* The adapter call of a running task raises
AdapterRaises(i) ==
    /\ i \in DOMAIN futures
    /\ futures[i].st = "running"
    /\ futures' = [futures EXCEPT ![i] =
           [@ EXCEPT !.st = "done", !.request = NoRequest, !.call = NoCall,
                     !.failed = TRUE, !.ret = OnToolError(futures[i].req)]]
    /\ UNCHANGED <<inputs, context, pc, messages, iteration, message, outcome,
                   lookups, completions>>

\* A mutant of Collect: the message of a failed call is dropped
CollectSkipsErrors(i) ==
    /\ pc = "collect"
    /\ i \in DOMAIN futures
    /\ futures[i].st = "done"
    /\ futures' = [futures EXCEPT ![i] =
           [@ EXCEPT !.st = "yielded", !.request = NoRequest, !.call = NoCall]]
    /\ messages' = IF futures[i].failed THEN messages
                   ELSE Append(messages, futures[i].ret.message)
    /\ UNCHANGED <<inputs, context, pc, iteration, message, outcome, lookups,
                   completions>>

\* for future in as_completed(futures): messages.append(future.result())
Collect(i) ==
    /\ pc = "collect"
    /\ i \in DOMAIN futures
    /\ futures[i].st = "done"
    /\ futures' = [futures EXCEPT ![i] =
           [@ EXCEPT !.st = "yielded", !.request = NoRequest, !.call = NoCall]]
    /\ IF futures[i].ret.kind = "message"
       THEN /\ messages' = Append(messages, futures[i].ret.message)
            /\ UNCHANGED <<pc, outcome>>
       ELSE /\ Raise(futures[i].ret.error)
            /\ UNCHANGED messages
    /\ UNCHANGED <<inputs, context, iteration, message, lookups, completions>>

\* A mutant of RoundDrained: the round ends with the first result
RoundDrainedFirst(fs, calls) == \E i \in DOMAIN fs : fs[i].st = "yielded"

\* as_completed has yielded every future of the round
RoundDrained(fs, calls) ==
    /\ Len(fs) = Len(calls)
    /\ \A i \in DOMAIN fs : fs[i].st = "yielded"

\* A mutant of CloseRound: a round does not count against the budget
CloseRoundKeepsIteration ==
    /\ pc = "collect"
    /\ RoundDrained(futures, message.tool_calls)
    /\ pc' = "loop"
    /\ UNCHANGED <<inputs, context, messages, iteration, message, futures, outcome,
                   lookups, completions>>

\* The as_completed loop and the with block end; the for loop goes on
CloseRound ==
    /\ pc = "collect"
    /\ RoundDrained(futures, message.tool_calls)
    /\ iteration' = iteration + 1
    /\ pc' = "loop"
    /\ UNCHANGED <<inputs, context, messages, message, futures, outcome,
                   lookups, completions>>

-----------------------------------------------------------------------------
(* The command line: parse_llm_args of cli.py *)

\* The longest value string of the value menu of parse_llm_args
MaxValueLen == 3

\* str.startswith
StartsWith(text, prefix) ==
    /\ Len(text) >= Len(prefix)
    /\ SubSeq(text, 1, Len(prefix)) = prefix

\* "--llm-" and "--": a dash is an atom, "llm-" the run of four characters
LlmPrefix == <<"-", "-", "llm-">>
DashDash == <<"-", "-">>

\* The spellings of the boolean literals: an atom for a run of letters
LowerAtom(a) ==
    CASE a \in {"true", "TRUE", "True", "tRuE"} -> "true"
      [] a \in {"false", "FALSE", "False"}      -> "false"
      [] a = "GitLab.com"                       -> "gitlab.com"
      [] a = "GitHub.com"                       -> "github.com"
      [] OTHER                                   -> a

\* str.lower
Lower(text) == [n \in DOMAIN text |-> LowerAtom(text[n])]

\* str.replace(c, "", 1): the text without the first c
RECURSIVE RemoveFirst(_, _)
RemoveFirst(text, c) ==
    IF text = <<>> THEN <<>>
    ELSE IF Head(text) = c THEN Tail(text)
    ELSE <<Head(text)>> \o RemoveFirst(Tail(text), c)

\* The characters str.isdigit accepts: the decimal digits, and digits that
\* are no decimals, such as a superscript two
DecimalChars == {"0", "1", "4", "5"}
DigitChars == DecimalChars \cup {"sup2"}

\* str.isdigit: not empty, and digits only
IsDigit(text) == text # <<>> /\ \A n \in DOMAIN text : text[n] \in DigitChars

DigitValue(c) == CASE c = "0" -> 0 [] c = "1" -> 1 [] c = "4" -> 4 [] c = "5" -> 5

\* The number a text of decimal digits denotes; 0 for the empty text
RECURSIVE Number(_)
Number(digits) ==
    IF digits = <<>> THEN 0
    ELSE 10 * Number(SubSeq(digits, 1, Len(digits) - 1))
         + DigitValue(digits[Len(digits)])

\* The text after a leading sign
Unsigned(text) ==
    IF text # <<>> /\ Head(text) \in {"-", "+"} THEN Tail(text) ELSE text

\* int(text): a sign, then decimal digits; anything else raises ValueError
IntOf(text) ==
    IF Unsigned(text) # <<>> /\ \A n \in DOMAIN Unsigned(text) :
                                    Unsigned(text)[n] \in DecimalChars
    THEN [type |-> "int",
          value |-> IF Head(text) = "-" THEN 0 - Number(Unsigned(text))
                    ELSE Number(Unsigned(text))]
    ELSE [type |-> "raise", error |-> "ValueError"]

\* float(text), for a text of digits, signs and points: a sign, then decimal
\* digits around at most one point, one digit at least; anything else raises
\* ValueError.  The value is digits / 10^decimals.
FloatOf(text) ==
    LET body   == Unsigned(text)
        digits == RemoveFirst(body, ".")
        point  == CHOOSE n \in 1..(Len(body) + 1) :
                      (n <= Len(body) /\ body[n] = "." /\ \A m \in 1..(n - 1) : body[m] # ".")
                      \/ (n = Len(body) + 1 /\ \A m \in 1..Len(body) : body[m] # ".")
    IN  IF digits # <<>> /\ \A n \in DOMAIN digits : digits[n] \in DecimalChars
        THEN [type |-> "float", negative |-> Head(text) = "-",
              digits |-> Number(digits),
              decimals |-> IF point > Len(body) THEN 0 ELSE Len(body) - point]
        ELSE [type |-> "raise", error |-> "ValueError"]

\* The conversion of a value string: parse_llm_args, lines 28-39
Convert(value) ==
    IF Lower(value) = <<"true">> THEN [type |-> "bool", value |-> TRUE]
    ELSE IF Lower(value) = <<"false">> THEN [type |-> "bool", value |-> FALSE]
    ELSE IF IsDigit(RemoveFirst(RemoveFirst(value, "."), "-"))
    THEN IF "." \in Range(value) THEN FloatOf(value) ELSE IntOf(value)
    ELSE [type |-> "str", value |-> value]

\* A mutant of ParseFrom: the value of an option is read but not consumed, it
\* is kept as an argument as well
RECURSIVE ParseFromKeepsValue(_, _, _, _)
ParseFromKeepsValue(args, i, filtered, config) ==
    IF i > Len(args)
    THEN [raised |-> FALSE, filtered_argv |-> filtered, llm_config |-> config]
    ELSE IF StartsWith(args[i], LlmPrefix)
    THEN LET param_name == SubSeq(args[i], Len(LlmPrefix) + 1, Len(args[i]))
         IN  IF i + 1 <= Len(args) /\ ~StartsWith(args[i + 1], DashDash)
             THEN IF Convert(args[i + 1]).type = "raise"
                  THEN [raised |-> TRUE, error |-> Convert(args[i + 1]).error]
                  ELSE ParseFromKeepsValue(args, i + 1, filtered,
                           With(config, param_name, Convert(args[i + 1])))
             ELSE ParseFromKeepsValue(args, i + 1, filtered,
                      With(config, param_name, [type |-> "bool", value |-> TRUE]))
    ELSE ParseFromKeepsValue(args, i + 1, Append(filtered, args[i]), config)

\* The while loop of parse_llm_args from position i on (i counts from 1)
RECURSIVE ParseFrom(_, _, _, _)
ParseFrom(args, i, filtered, config) ==
    IF i > Len(args)
    THEN [raised |-> FALSE, filtered_argv |-> filtered, llm_config |-> config]
    ELSE IF StartsWith(args[i], LlmPrefix)
    THEN LET param_name == SubSeq(args[i], Len(LlmPrefix) + 1, Len(args[i]))
         IN  IF i + 1 <= Len(args) /\ ~StartsWith(args[i + 1], DashDash)
             THEN IF Convert(args[i + 1]).type = "raise"
                  THEN [raised |-> TRUE, error |-> Convert(args[i + 1]).error]
                  ELSE ParseFrom(args, i + 2, filtered,
                                 With(config, param_name, Convert(args[i + 1])))
             ELSE ParseFrom(args, i + 1, filtered,
                            With(config, param_name, [type |-> "bool", value |-> TRUE]))
    ELSE ParseFrom(args, i + 1, Append(filtered, args[i]), config)

\* parse_llm_args(argv)
ParseLlmArgs(args) == ParseFrom(args, 1, <<>>, EmptyConfig)

-----------------------------------------------------------------------------
(* The command line: main of cli.py *)

\* The defaults of ask() and of --max-iterations
DefaultMaxWorkers == 15
DefaultMaxIterations == 20

\* "--llm-<name>" and "--<name>", the name a text
LlmOption(name) == LlmPrefix \o name
Option(name) == DashDash \o <<name>>

\* urlparse of the URLs the command lines name
UrlOf(text) ==
    CASE text = <<"https://github.com/o/r/tree/dev">> ->
             Url(<<"github.com">>, <<"/", "o", "/", "r", "/", "tree", "/", "dev">>)
      [] text = <<"https://github.com/o">> ->
             Url(<<"github.com">>, <<"/", "o">>)

\* What argparse makes of the arguments from position i on: the positional
\* arguments and the options --max-iterations (an int), --token and
\* --github-token, each with the argument after it as its value; an option
\* it does not know, an option without value, and a value of
\* --max-iterations that int() rejects are errors
RECURSIVE ArgparseFrom(_, _, _)
ArgparseFrom(args, i, ns) ==
    IF i > Len(args) THEN ns
    ELSE IF ~StartsWith(args[i], DashDash)
    THEN ArgparseFrom(args, i + 1,
                      [ns EXCEPT !.positional = Append(@, args[i])])
    ELSE IF i + 1 > Len(args) \/ StartsWith(args[i + 1], DashDash)
    THEN [ns EXCEPT !.error = TRUE]
    ELSE IF args[i] = Option("max-iterations")
    THEN IF IntOf(args[i + 1]).type = "raise"
         THEN [ns EXCEPT !.error = TRUE]
         ELSE ArgparseFrom(args, i + 2,
                           [ns EXCEPT !.max_iterations = IntOf(args[i + 1]).value])
    ELSE IF args[i] = Option("token")
    THEN ArgparseFrom(args, i + 2, [ns EXCEPT !.token = args[i + 1]])
    ELSE IF args[i] = Option("github-token")
    THEN ArgparseFrom(args, i + 2, [ns EXCEPT !.github_token = args[i + 1]])
    ELSE [ns EXCEPT !.error = TRUE]

\* parser.parse_args(filtered_argv): two positional arguments, or an error
Argparse(args) ==
    LET ns == ArgparseFrom(args, 1,
                  [error |-> FALSE, positional |-> <<>>,
                   max_iterations |-> DefaultMaxIterations,
                   token |-> None, github_token |-> None])
    IN  IF ns.error \/ Len(ns.positional) # 2
        THEN [error |-> TRUE]
        ELSE [error |-> FALSE, repo_url |-> ns.positional[1],
              prompt |-> ns.positional[2], max_iterations |-> ns.max_iterations,
              token |-> ns.token, github_token |-> ns.github_token]

\* The parameters of ask() that main() passes by name or by position
NamedByMain == {<<"repo_url">>, <<"prompt">>, <<"max_iterations">>, <<"token">>,
                <<"github_token">>}

\* d without the key k
Without(d, k) == [x \in DOMAIN d \ {k} |-> d[x]]

\* The defaults of the completion configuration: ask, lines 247-251
DefaultParams ==
    [k \in {<<"model">>, <<"tools">>, <<"parallel", "_", "tool", "_", "calls">>} |->
        CASE k = <<"model">> -> [type |-> "str", value |-> <<"gpt-5">>]
          [] k = <<"tools">> -> [type |-> "tools"]
          [] OTHER           -> [type |-> "bool", value |-> TRUE]]

\* dict.update: the entries of d, replaced and extended by those of e
Update(d, e) ==
    [k \in DOMAIN d \cup DOMAIN e |-> IF k \in DOMAIN e THEN e[k] ELSE d[k]]

\* llm_params, the keyword arguments of every completion request: ask,
\* lines 247-253
llm_params == Update(DefaultParams, litellm_config)

\* The characters of the value strings: a digit, a sign, a point, a letter,
\* and a digit that is no decimal
ValueChars == {"1", "-", ".", "x", "sup2"}

\* The value strings of the specification of parse_llm_args: every string of
\* up to MaxValueLen characters, the boolean literals in several spellings, a
\* literal with a character after it, and the values of the documented example
ValueStrings ==
    SeqsUpTo(ValueChars, MaxValueLen)
    \cup { <<"true">>, <<"TRUE">>, <<"True">>, <<"tRuE">>, <<"false">>, <<"FALSE">>,
           <<"False">>, <<"true", "1">>, <<"x", "false">> }
    \cup { <<"0", ".", "5">>, <<"4", "0", "0", "0">> }

\* The command lines of the specification of parse_llm_args: one option with
\* every value, the option alone, before another option and between
\* positional arguments
ArgvParse ==
    { <<LlmOption(<<"k">>), v>> : v \in ValueStrings }
    \cup { <<LlmOption(<<"k">>)>>,
           <<LlmOption(<<"k">>), LlmOption(<<"j">>), <<"1">>>>,
           <<<<"u">>, LlmOption(<<"k">>), <<"1", ".", "1">>, <<"q">>>>,
           <<LlmOption(<<"k">>), <<"1">>, LlmOption(<<"k">>), <<"x">>>> }

GoodUrl == <<"https://github.com/o/r/tree/dev">>
BadUrl == <<"https://github.com/o">>

\* The command lines of the specification of main
ArgvCli ==
    { <<GoodUrl, <<"prompt">>>>,
      <<GoodUrl, <<"prompt">>, Option("max-iterations"), <<"1">>>>,
      <<GoodUrl, <<"prompt">>, Option("token"), <<"tokA">>,
        LlmOption(<<"temperature">>), <<"0", ".", "5">>,
        LlmOption(<<"max", "-", "tokens">>), <<"4", "0", "0", "0">>>>,
      <<GoodUrl, <<"prompt">>, LlmOption(<<"model">>), <<"gpt-4o">>>>,
      <<GoodUrl, <<"prompt">>, LlmOption(<<"parallel", "-", "tool", "-", "calls">>),
        <<"false">>>>,
      <<GoodUrl, <<"prompt">>, LlmOption(<<"stream">>)>>,
      <<GoodUrl, <<"prompt">>, LlmOption(<<"seed">>), <<"1", "-">>>>,
      <<GoodUrl, <<"prompt">>, LlmOption(<<"token">>), <<"x">>>>,
      <<BadUrl, <<"prompt">>>>,
      <<GoodUrl, <<"prompt">>, Option("max-iterations"), <<"x">>>>,
      <<GoodUrl>> }

\* The tool calls of the specification of main
ToolCallsCli ==
    { [name |-> "read_file",
       arguments |-> Json([owner |-> <<"o">>, repo |-> <<"r">>, path |-> <<"p">>])],
      [name |-> "delete_repo",
       arguments |-> Json([owner |-> <<"o">>, repo |-> <<"r">>])] }

StartCliTask(i) == StartTaskFrom(i, ToolCallsCli)

\* The process ends
Exit(code) ==
    /\ exit_code' = code
    /\ cli_pc' = "exited"

\* parse_llm_args(sys.argv[1:]), line 56: outside the try block, so what it
\* raises ends the process with a traceback and the status 1
ParseArgs ==
    /\ cli_pc = "parse"
    /\ LET parsed == ParseLlmArgs(argv)
       IN  IF parsed.raised
           THEN /\ stderr' = <<"Traceback (most recent call last):", parsed.error>>
                /\ Exit(1)
                /\ UNCHANGED <<filtered_argv, llm_config>>
           ELSE /\ filtered_argv' = parsed.filtered_argv
                /\ llm_config' = parsed.llm_config
                /\ cli_pc' = "argparse"
                /\ UNCHANGED <<stderr, exit_code>>
    /\ UNCHANGED <<repo_url, max_iterations, max_workers, token, github_token, env,
                   argv, litellm_config, stdout, context, pc, messages, iteration,
                   message, futures, outcome, lookups, completions, tree>>

\* parser.parse_args(filtered_argv), line 119, and the call of ask, lines
\* 122-129: the keywords of llm_config are bound to the parameters of ask, a
\* second value for a parameter main() names is a TypeError, raised inside
\* the try block
CallAsk ==
    /\ cli_pc = "argparse"
    /\ LET args == Argparse(filtered_argv)
       IN  IF args.error
           THEN /\ stderr' = <<"usage: ", "error: ">>
                /\ Exit(2)
                /\ UNCHANGED <<repo_url, max_iterations, max_workers, token,
                               github_token, litellm_config, stdout, pc>>
           ELSE IF DOMAIN llm_config \cap NamedByMain # {}
           THEN /\ stdout' = <<<<"Error: ", "TypeError: multiple values">>>>
                /\ Exit(1)
                /\ UNCHANGED <<repo_url, max_iterations, max_workers, token,
                               github_token, litellm_config, stderr, pc>>
           ELSE /\ repo_url' = UrlOf(args.repo_url)
                /\ max_iterations' = args.max_iterations
                /\ token' = args.token
                /\ github_token' = args.github_token
                /\ max_workers' =
                      IF <<"max", "_", "workers">> \in DOMAIN llm_config
                      THEN llm_config[<<"max", "_", "workers">>].value
                      ELSE DefaultMaxWorkers
                /\ litellm_config' = Without(llm_config, <<"max", "_", "workers">>)
                /\ pc' = "start"
                /\ cli_pc' = "ask"
                /\ UNCHANGED <<stdout, stderr, exit_code>>
    /\ UNCHANGED <<env, argv, filtered_argv, llm_config, context, messages,
                   iteration, message, futures, outcome, lookups, completions, tree>>

\* print(response), line 130; main returns and the process exits with 0
PrintResponse ==
    /\ cli_pc = "ask"
    /\ pc = "returned"
    /\ stdout' = <<outcome.value>>
    /\ Exit(0)
    /\ UNCHANGED <<repo_url, max_iterations, max_workers, token, github_token, env,
                   argv, filtered_argv, llm_config, litellm_config, stderr,
                   context, pc, messages, iteration, message, futures, outcome,
                   lookups, completions, tree>>

\* except Exception as e: print(f"Error: {e}"); exit(1), lines 131-133
PrintError ==
    /\ cli_pc = "ask"
    /\ pc = "raised"
    /\ stdout' = <<<<"Error: ", outcome.error>>>>
    /\ Exit(1)
    /\ UNCHANGED <<repo_url, max_iterations, max_workers, token, github_token, env,
                   argv, filtered_argv, llm_config, litellm_config, stderr,
                   context, pc, messages, iteration, message, futures, outcome,
                   lookups, completions, tree>>

-----------------------------------------------------------------------------
(* Specifications *)

Next ==
    \/ Resolve
    \/ LookupReturns
    \/ LookupRaises
    \/ SendCompletion
    \/ ReturnSentinel
    \/ CompletionRaises
    \/ ReceiveFinal
    \/ ReceiveToolCalls
    \/ CreatePool
    \/ Submit
    \/ \E i \in 1..MaxCalls : StartTask(i)
    \/ \E i \in 1..MaxCalls : AdapterReturns(i)
    \/ \E i \in 1..MaxCalls : AdapterRaises(i)
    \/ \E i \in 1..MaxCalls : Collect(i)
    \/ CloseRound

Spec == Init /\ [][Next]_vars

\* The worker pool under fair scheduling, for one repository whose URL names
\* its ref and a budget of one iteration (each round creates its own pool): the
\* threads are scheduled, and every call of a collaborator (the
\* completion endpoint, an adapter) returns or raises
InitPool ==
    /\ repo_url = Url(<<"github.com">>, <<"/", "o", "/", "r", "/", "tree", "/", "dev">>)
    /\ max_iterations = 1
    /\ max_workers \in 0..MaxWorkers
    /\ token = <<"tokA">>
    /\ github_token = None
    /\ env = [GITHUB_TOKEN |-> None, GITLAB_TOKEN |-> None]
    /\ InitLibrary

\* The steps of the thread that runs ask
Control ==
    \/ Resolve \/ SendCompletion \/ ReturnSentinel \/ CompletionRaises
    \/ ReceiveFinal \/ ReceiveToolCalls \/ CreatePool \/ Submit \/ CloseRound
    \/ \E i \in 1..MaxCalls : Collect(i)

NextPool ==
    \/ Control
    \/ \E i \in 1..MaxCalls : StartTask(i)
    \/ \E i \in 1..MaxCalls : AdapterReturns(i)
    \/ \E i \in 1..MaxCalls : AdapterRaises(i)

Fairness ==
    /\ WF_vars(Control)
    /\ \A i \in 1..MaxCalls : WF_vars(StartTask(i))
    /\ \A i \in 1..MaxCalls : WF_vars(AdapterReturns(i) \/ AdapterRaises(i))

FairSpec == InitPool /\ [][NextPool]_vars /\ Fairness

\* Context resolution alone, over every URL of UrlsAll
InitResolve ==
    /\ repo_url \in UrlsAll
    /\ max_iterations = 1
    /\ max_workers = 1
    /\ token = <<"tokA">>
    /\ github_token = None
    /\ env = [GITHUB_TOKEN |-> None, GITLAB_TOKEN |-> None]
    /\ InitLibrary

NextResolve == Resolve \/ LookupReturns \/ LookupRaises

SpecResolve == InitResolve /\ [][NextResolve]_vars

\* One repository, one worker, and every content of AnswerContents in the
\* terminal response
InitAnswer ==
    /\ repo_url = Url(<<"github.com">>, <<"/", "o", "/", "r", "/", "tree", "/", "dev">>)
    /\ max_iterations \in 1..MaxIterations
    /\ max_workers = 1
    /\ token = <<"tokA">>
    /\ github_token = None
    /\ env = [GITHUB_TOKEN |-> None, GITLAB_TOKEN |-> None]
    /\ InitLibrary

NextAnswer ==
    \/ Resolve
    \/ SendCompletion
    \/ ReturnSentinel
    \/ CompletionRaises
    \/ ReceiveAnswer
    \/ ReceiveToolCalls
    \/ CreatePool
    \/ Submit
    \/ \E i \in 1..MaxCalls : StartTask(i)
    \/ \E i \in 1..MaxCalls : AdapterReturns(i)
    \/ \E i \in 1..MaxCalls : AdapterRaises(i)
    \/ \E i \in 1..MaxCalls : Collect(i)
    \/ CloseRound

SpecAnswer == InitAnswer /\ [][NextAnswer]_vars

\* The dispatcher: two repositories whose URLs name their ref, one on each
\* platform, the token given as an argument, by the environment or not at all,
\* and every call of ToolCallsAll
InitDispatch ==
    /\ repo_url \in { Url(<<"github.com">>, <<"/", "o", "/", "r", "/", "tree", "/", "dev">>),
                      Url(<<"gitlab.com">>,
                          <<"/", "o", "/", "r", "/", "-", "/", "tree", "/", "dev">>) }
    /\ max_iterations = MaxIterations
    /\ max_workers = MaxWorkers
    /\ token \in {None, <<"tokA">>}
    /\ github_token = None
    /\ env \in { [GITHUB_TOKEN |-> None, GITLAB_TOKEN |-> None],
                 [GITHUB_TOKEN |-> <<"envG">>, GITLAB_TOKEN |-> <<"envL">>] }
    /\ InitLibrary

NextDispatch ==
    \/ Resolve
    \/ SendCompletion
    \/ ReturnSentinel
    \/ CompletionRaises
    \/ ReceiveFinal
    \/ ReceiveToolCalls
    \/ CreatePool
    \/ Submit
    \/ \E i \in 1..MaxCalls : StartAnyTask(i)
    \/ \E i \in 1..MaxCalls : AdapterReturns(i)
    \/ \E i \in 1..MaxCalls : AdapterRaises(i)
    \/ \E i \in 1..MaxCalls : Collect(i)
    \/ CloseRound

SpecDispatch == InitDispatch /\ [][NextDispatch]_vars

\* The process is started with one of the command lines args: main() is about
\* to run, ask() is not yet called
InitMain(args) ==
    /\ argv \in args
    /\ filtered_argv = <<>>
    /\ llm_config = EmptyConfig
    /\ litellm_config = EmptyConfig
    /\ cli_pc = "parse"
    /\ stdout = <<>>
    /\ stderr = <<>>
    /\ exit_code = None
    /\ repo_url = Url(None, <<>>)
    /\ max_iterations = DefaultMaxIterations
    /\ max_workers = DefaultMaxWorkers
    /\ token = None
    /\ github_token = None
    /\ env = [GITHUB_TOKEN |-> None, GITLAB_TOKEN |-> None]
    /\ pc = "idle"
    /\ platform = "unset"
    /\ owner = None
    /\ repo = None
    /\ ref = None
    /\ auth_token = None
    /\ messages = <<>>
    /\ iteration = 0
    /\ repo_info = NoInfo
    /\ message = NoMessage
    /\ futures = <<>>
    /\ outcome = NoOutcome
    /\ lookups = 0
    /\ completions = 0
    /\ NoTree

\* parse_llm_args alone, over every command line of ArgvParse
InitParse == InitMain(ArgvParse)

NextParse == ParseArgs

SpecParse == InitParse /\ [][NextParse]_vars

\* main() from the command line to the exit of the process
InitCli == InitMain(ArgvCli)

NextCli ==
    \/ ParseArgs
    \/ CallAsk
    \/ Resolve
    \/ SendCompletion
    \/ ReturnSentinel
    \/ CompletionRaises
    \/ ReceiveFinal
    \/ ReceiveToolCalls
    \/ CreatePool
    \/ Submit
    \/ \E i \in 1..MaxCalls : StartCliTask(i)
    \/ \E i \in 1..MaxCalls : AdapterReturns(i)
    \/ \E i \in 1..MaxCalls : AdapterRaises(i)
    \/ \E i \in 1..MaxCalls : Collect(i)
    \/ CloseRound
    \/ PrintResponse
    \/ PrintError

SpecCli == InitCli /\ [][NextCli]_vars

-----------------------------------------------------------------------------
(* Rounds and their replies, as the conversation shows them *)

IsAssistant(m) == m.role = "assistant"
IsToolMessage(m) == m.role = "tool"
HasToolCalls(m) == IsAssistant(m) /\ "tool_calls" \in DOMAIN m

\* The positions of the assistant messages that request tool calls
RoundStarts == {k \in DOMAIN messages : HasToolCalls(messages[k])}

\* The positions after k, up to the next assistant message or the end
RepliesTo(k) ==
    {r \in DOMAIN messages :
        /\ r > k
        /\ \A q \in (k + 1)..r : ~IsAssistant(messages[q])}

\* Every request of the round at k has exactly one tool message, and the round
\* has no other message
Answered(k) ==
    /\ Cardinality(RepliesTo(k)) = Len(messages[k].tool_calls)
    /\ \A r \in RepliesTo(k) : IsToolMessage(messages[r])
    /\ \A j \in DOMAIN messages[k].tool_calls :
          Cardinality({r \in RepliesTo(k) :
              /\ IsToolMessage(messages[r])
              /\ messages[r].tool_call_id = messages[k].tool_calls[j]}) = 1

\* The completion requests that have no response yet
InFlight == completions - Cardinality({k \in DOMAIN messages : IsAssistant(messages[k])})

Ended == pc \in {"returned", "raised"}

-----------------------------------------------------------------------------
(* Claims *)

\* C1: whenever a completion request is sent, every earlier round of n >= 1
\* tool-call requests has exactly n tool messages, one per request id, whatever
\* the order in which the executions completed.
C1_RepliesMatchRequests ==
    pc = "completion" => \A k \in RoundStarts : Answered(k)

\* C1 witness: a completion request sent after a round of two requests whose
\* replies stand in the reverse of the request order.
C1_Witness ==
    /\ pc = "completion"
    /\ \E k \in RoundStarts :
          /\ Len(messages[k].tool_calls) >= 2
          /\ k + 2 \in DOMAIN messages
          /\ IsToolMessage(messages[k + 1])
          /\ messages[k + 1].tool_call_id = messages[k].tool_calls[2]
          /\ IsToolMessage(messages[k + 2])
          /\ messages[k + 2].tool_call_id = messages[k].tool_calls[1]

\* C2: a tool call that fails (adapter raises, unknown tool, undecodable
\* arguments) never raises out of ask: its task returns an error-text tool
\* message for its own request, ask never ends with the tool's exception, and
\* once the round is over every request of the round, failed or not, has its
\* reply, the loop standing at its next iteration.
C2_FailureContained ==
    /\ \A i \in DOMAIN futures :
          futures[i].failed =>
             /\ futures[i].st \in {"done", "yielded"}
             /\ futures[i].ret.kind = "message"
             /\ futures[i].ret.message.role = "tool"
             /\ futures[i].ret.message.tool_call_id = futures[i].req
             /\ (pc \in {"submit", "collect"} => futures[i].req = message.tool_calls[i])
             /\ IsErrorText(futures[i].ret.message.content)
    /\ outcome.kind = "raise" =>
          outcome.error \in {"ValueError: Invalid URL", "HTTPError: get_repo_info",
                             "completion",
                             "ValueError: max_workers must be greater than 0"}
    /\ \A i \in DOMAIN futures :
          futures[i].st = "yielded" =>
             \E r \in DOMAIN messages :
                /\ IsToolMessage(messages[r])
                /\ messages[r].tool_call_id = futures[i].req
                /\ messages[r].content = futures[i].ret.message.content
    /\ ( /\ \E i \in DOMAIN futures : futures[i].failed
         /\ \A i \in DOMAIN futures : futures[i].st = "yielded"
         /\ pc # "submit" )
          => /\ pc \in {"collect", "loop", "completion", "returned", "raised"}
             /\ pc = "raised" => outcome.error = "completion"
             /\ \A k \in RoundStarts : Answered(k)

\* C2 witness: the completion request after a round in which one call failed
\* and another succeeded.
C2_Witness ==
    /\ pc = "completion"
    /\ \E i, j \in DOMAIN futures :
          /\ futures[i].failed
          /\ ~futures[j].failed
          /\ futures[i].st = "yielded"
          /\ futures[j].st = "yielded"

\* C3: if the first response has no tool calls, ask has returned after exactly
\* one completion request, the conversation holds that response and nothing
\* after it, and no tool call was dispatched.
C3_FirstResponseFinal ==
    (Len(messages) >= 3 /\ ~HasToolCalls(messages[3])) =>
        /\ pc = "returned"
        /\ outcome.kind = "return"
        /\ outcome.value # SENTINEL
        /\ (message.content.type = "str" => outcome.value = message.content.text)
        /\ completions = 1
        /\ Len(messages) = 3
        /\ futures = <<>>
        /\ iteration = 0

\* C3 witness: ask has returned a non-empty first response.
C3_Witness ==
    /\ pc = "returned"
    /\ Len(messages) = 3
    /\ outcome.value = <<"a", " ", "b">>

\* C4: with max_iterations = 0 the completion endpoint is never called, and a
\* resolved invocation can only return the sentinel.
C4_ZeroIterations ==
    max_iterations = 0 =>
        /\ completions = 0
        /\ pc \in {"start", "lookup", "loop", "returned", "raised"}
        /\ (pc = "raised" => messages = <<>>)
        /\ (pc = "returned" => outcome = [kind |-> "return", value |-> SENTINEL])

\* C4 witness: ask has returned with max_iterations = 0.
C4_Witness == max_iterations = 0 /\ pc = "returned"

\* C5 (as claimed): when the loop was reached, max_iterations responses have
\* come and every one carried tool calls, ask has made exactly max_iterations
\* completion requests and ends by returning the sentinel, not by an exception.
C5_Original ==
    /\ completions <= max_iterations
    /\ (Ended /\ messages # <<>> /\ Cardinality(RoundStarts) = max_iterations) =>
          /\ outcome = [kind |-> "return", value |-> SENTINEL]
          /\ completions = max_iterations

\* C5 (amended): the same, for max_workers >= 1; with max_workers <= 0 the
\* first round that carries tool calls ends ask with the ValueError of the
\* thread pool's constructor.
C5_SentinelAfterBudget ==
    /\ completions <= max_iterations
    /\ ( /\ max_workers >= 1
         /\ Ended
         /\ messages # <<>>
         /\ Cardinality(RoundStarts) = max_iterations ) =>
          /\ outcome = [kind |-> "return", value |-> SENTINEL]
          /\ completions = max_iterations
    /\ (max_workers <= 0 /\ Ended /\ Cardinality(RoundStarts) >= 1) =>
          outcome = [kind |-> "raise",
                     error |-> "ValueError: max_workers must be greater than 0"]

\* C5 witness: two rounds of tool calls used up a budget of two, and ask
\* returned the sentinel.
C5_Witness ==
    /\ pc = "returned"
    /\ max_iterations >= 2
    /\ Cardinality(RoundStarts) = max_iterations
    /\ outcome.value = SENTINEL

\* C6: at most one completion request is in flight, and while one is in
\* flight no tool call of the round before it is pending, executing or
\* uncollected: every future of that round was yielded and every request of
\* every earlier round has its tool message in the conversation.
C6_RoundsSequential ==
    /\ InFlight \in {0, 1}
    /\ InFlight = 1 <=> (pc = "completion" \/ (pc = "raised" /\ outcome.error = "completion"))
    /\ pc = "completion" =>
          /\ Len(futures) = Len(message.tool_calls)
          /\ \A i \in DOMAIN futures : futures[i].st = "yielded"
          /\ \A k \in RoundStarts : Answered(k)

\* C6 witness: the second completion request in flight, after a round of two
\* tool calls.
C6_Witness ==
    /\ pc = "completion"
    /\ completions = 2
    /\ Len(futures) >= 2

\* C7: within a round every request is submitted to the pool before the
\* results are awaited, at every instant at most max_workers tool calls are
\* executing, also when the round requests more than that, and every request
\* of a round is eventually executed.  As stated, for every max_workers.
C7_Original ==
    /\ [](Cardinality(Executing(futures)) <= max_workers)
    /\ [](pc = "collect" => Len(futures) = Len(message.tool_calls))
    /\ \A j \in 1..MaxCalls :
          (pc = "pool" /\ j <= Len(message.tool_calls))
             ~> (j \in DOMAIN futures /\ futures[j].st \in {"done", "yielded"})

\* C7, amended: the same for max_workers >= 1; with max_workers <= 0 no
\* request of the round is ever submitted or executed, and ask ends with the
\* ValueError of the pool's constructor.
C7_BoundedPool ==
    /\ [](Cardinality(Executing(futures)) <= max_workers)
    /\ [](pc = "collect" => Len(futures) = Len(message.tool_calls))
    /\ \A j \in 1..MaxCalls :
          (max_workers >= 1 /\ pc = "pool" /\ j <= Len(message.tool_calls))
             ~> (j \in DOMAIN futures /\ futures[j].st \in {"done", "yielded"})
    /\ [](max_workers <= 0 => futures = <<>>)
    /\ (max_workers <= 0 /\ pc = "pool")
          ~> (outcome = [kind |-> "raise",
                         error |-> "ValueError: max_workers must be greater than 0"])

\* C7 witness: a round of more requests than workers, all submitted, with
\* max_workers >= 2 of them executing at once and another one waiting.
C7_Witness ==
    /\ max_workers >= 2
    /\ Len(message.tool_calls) > max_workers
    /\ Len(futures) = Len(message.tool_calls)
    /\ Cardinality(Executing(futures)) = max_workers
    /\ \E i \in DOMAIN futures : futures[i].st = "pending"

\* The n-th segment of a path "/s1/s2/.../sk" or "/s1/s2/.../sk/", the
\* segments taken as atoms: <<>> when the path has no such segment
SegmentAt(path, n) ==
    IF /\ 2 * n <= Len(path)
       /\ \A m \in 1..n : path[2 * m - 1] = "/" /\ path[2 * m] # "/"
    THEN <<path[2 * n]>>
    ELSE <<>>

\* The position of the ref marker in a repository URL of the platform:
\* /owner/repo/tree/<ref> on GitHub, /owner/repo/-/tree/<ref> on GitLab
MarkerAt(plat) == IF plat = "gitlab" THEN 4 ELSE 3

\* The URL carries an explicit ref segment, in the form of the platform
HasRefSegment(plat, url) ==
    /\ SegmentAt(url.path, MarkerAt(plat)) \in RefMarkers
    /\ SegmentAt(url.path, MarkerAt(plat) + 1) # <<>>
    /\ plat = "gitlab" => SegmentAt(url.path, 3) = <<"-">>

RefSegment(plat, url) == SegmentAt(url.path, MarkerAt(plat) + 1)

\* C8: when the repository URL carries an explicit ref segment, in the form of
\* the platform the URL is resolved to, then once the URL is parsed the ref of
\* the invocation is that segment, the conversation names that ref, and no
\* default-branch lookup is or was made.
C8_ExplicitRefNoLookup ==
    (pc # "start" /\ HasRefSegment(platform, repo_url)) =>
        /\ ref = RefSegment(platform, repo_url)
        /\ lookups = 0
        /\ repo_info = NoInfo
        /\ pc = "loop"
        /\ messages # <<>> /\ messages[1].ref = RefSegment(platform, repo_url)

\* C8 witness: a GitLab URL /o/o/-/blob/dev/ resolved to the ref dev
\* without a lookup.
C8_Witness ==
    /\ pc = "loop"
    /\ platform = "gitlab"
    /\ HasRefSegment("gitlab", repo_url)
    /\ SegmentAt(repo_url.path, 4) = <<"blob">>
    /\ Len(repo_url.path) > 10
    /\ ref = <<"dev">>
    /\ lookups = 0

\* The URL names an owner and a repository, and no ref
NoRefSegment(plat, url) ==
    /\ SegmentAt(url.path, 2) # <<>>
    /\ ~HasRefSegment(plat, url)

\* The ref an adapter call passes: None when the call has no ref keyword
PassedRef(call) == IF "ref" \in DOMAIN call.args THEN call.args.ref ELSE None

\* C9: when the repository URL has no ref segment, the default-branch lookup
\* is made exactly once and has returned before the conversation starts; the
\* branch it reports is the ref of every adapter call of read_file,
\* list_directory or list_tree whose request omits ref, in every round; and a
\* request that supplies a ref passes its own ref.
C9_DefaultBranchOnce ==
    /\ (pc # "start" /\ NoRefSegment(platform, repo_url)) =>
          /\ lookups = 1
          /\ (pc = "lookup" \/ repo_info = NoInfo) => messages = <<>>
          /\ messages # <<>> => repo_info # NoInfo
    /\ \A i \in DOMAIN futures :
          (futures[i].st = "running" /\ futures[i].call.op \in tools_with_ref) =>
             LET arguments == futures[i].request.arguments.value
             IN  IF "ref" \in DOMAIN arguments
                 THEN PassedRef(futures[i].call) = arguments.ref
                 ELSE ( /\ NoRefSegment(platform, repo_url)
                        /\ "default_branch" \in DOMAIN repo_info
                        /\ Truthy(repo_info.default_branch) ) =>
                          PassedRef(futures[i].call) = repo_info.default_branch

\* C9 witness: in the second round of an invocation whose URL has no ref, a
\* list_tree call without ref executes with the branch the one lookup reported,
\* next to a list_directory call that keeps the ref it was given.
C9_Witness ==
    /\ NoRefSegment(platform, repo_url)
    /\ lookups = 1
    /\ iteration >= 1
    /\ \E i, j \in DOMAIN futures :
          /\ futures[i].st = "running"
          /\ futures[i].call.op = "list_tree"
          /\ "ref" \notin DOMAIN futures[i].request.arguments.value
          /\ futures[i].call.args.ref = <<"trunk">>
          /\ repo_info.default_branch = <<"trunk">>
          /\ futures[j].st = "running"
          /\ futures[j].call.op = "list_directory"
          /\ futures[j].call.args.ref = <<"feat">>

\* The blocks of a content list that are typed text, in their order
TextBlocks(blocks) == SelectSeq(blocks, IsTextBlock)

\* Where the i-th part starts in the parts joined with one separator each
RECURSIVE Offset(_, _)
Offset(parts, i) ==
    IF i = 1 THEN 0 ELSE Offset(parts, i - 1) + Len(parts[i - 1]) + 1

\* text is the parts in their order with exactly one space between neighbours
IsSpaceJoined(text, parts) ==
    IF parts = <<>> THEN text = <<>>
    ELSE /\ Len(text) = Offset(parts, Len(parts)) + Len(parts[Len(parts)])
         /\ \A i \in DOMAIN parts :
               /\ SubSeq(text, Offset(parts, i) + 1,
                         Offset(parts, i) + Len(parts[i])) = parts[i]
               /\ i > 1 => text[Offset(parts, i)] = " "

\* ask has returned on a response without tool calls
ReturnedAnswer ==
    /\ pc = "returned"
    /\ messages # <<>>
    /\ IsAssistant(messages[Len(messages)])
    /\ ~HasToolCalls(messages[Len(messages)])

\* C10: on a response without tool calls ask returns the content itself when
\* it is a string, the texts of the text-typed blocks in their order with a
\* single space between them when it is a list of blocks (other blocks add
\* nothing, a text block without text adds the empty text), and the empty
\* string when the content is None or empty.
C10_AnswerText ==
    ReturnedAnswer =>
        /\ outcome.kind = "return"
        /\ message.tool_calls = <<>>
        /\ message.content.type = "str" => outcome.value = message.content.text
        /\ message.content.type = "none" => outcome.value = <<>>
        /\ message.content.type = "list" =>
              LET blocks == TextBlocks(message.content.blocks)
                  parts  == [i \in DOMAIN blocks |->
                                IF "text" \in DOMAIN blocks[i]
                                THEN blocks[i].text ELSE <<>>]
              IN  IsSpaceJoined(outcome.value, parts)

\* C10 witness: the answer "b c a" returned for a list of a text block, a
\* block of another type that also carries text, and a second text block.
C10_Witness ==
    /\ ReturnedAnswer
    /\ message.content.type = "list"
    /\ Len(message.content.blocks) = 3
    /\ message.content.blocks[2] = [type |-> "image", text |-> <<"x">>]
    /\ outcome.value = <<"b", " ", "c", " ", "a">>

\* The atoms of the texts the rounds at RoundStarts came with
RoundTextAtoms ==
    UNION {UNION {Range(messages[k].content[b].text) :
                     b \in DOMAIN messages[k].content} : k \in RoundStarts}

\* The position of the assistant message of the latest round
LastRound == CHOOSE k \in RoundStarts : \A q \in RoundStarts : q <= k

\* C11: a response with text and tool calls is never terminal.  While its
\* round runs ask has not ended and the text stands in the conversation with
\* the requests; ask returns something else than the sentinel only on a
\* response without tool calls, every earlier round then has all its replies,
\* and the returned text has nothing of the texts of the earlier rounds.
C11_TextWithToolCallsNotTerminal ==
    /\ pc \in {"pool", "submit", "collect"} =>
          /\ outcome = NoOutcome
          /\ message.tool_calls # <<>>
          /\ RoundStarts # {}
          /\ messages[LastRound].tool_calls = message.tool_calls
          /\ message.content.type = "str" =>
                messages[LastRound].content =
                    <<[type |-> "text", text |-> message.content.text]>>
    /\ (outcome.kind = "return" /\ outcome.value # SENTINEL) =>
          /\ ReturnedAnswer
          /\ \A k \in RoundStarts : Answered(k)
          /\ Range(outcome.value) \cap RoundTextAtoms = {}

\* C11 witness: an answer returned after a round whose response came with the
\* text "t" and tool calls; the text is in the conversation, not in the answer.
C11_Witness ==
    /\ ReturnedAnswer
    /\ outcome.value = <<"a", " ", "b">>
    /\ \E k \in RoundStarts :
          /\ messages[k].content = <<[type |-> "text", text |-> <<"t">>]>>
          /\ Answered(k)

\* C12: every adapter call of every tool, in every round, is made on the
\* module of the platform resolved before the loop and carries, under the
\* keyword github_token, the token resolved before the loop, also when the
\* arguments of the request bring a github_token of their own; and once
\* resolved, the token and the platform never change.
C12_OneToken ==
    /\ [](\A i \in DOMAIN futures :
             futures[i].st = "running" =>
                /\ futures[i].call.module = platform
                /\ "github_token" \in DOMAIN futures[i].call.args
                /\ futures[i].call.args.github_token = auth_token)
    /\ [][pc # "start" => (auth_token' = auth_token /\ platform' = platform)]_vars

\* C12 witness: in the second round, on GitLab, two calls executing at once
\* with the token of the environment, one of them a read_file whose arguments
\* brought the token tokM.
C12_Witness ==
    /\ iteration >= 1
    /\ platform = "gitlab"
    /\ auth_token = <<"envL">>
    /\ \E i, j \in DOMAIN futures :
          /\ i # j
          /\ futures[i].st = "running"
          /\ futures[j].st = "running"
          /\ futures[j].call.args.github_token = <<"envL">>
          /\ "github_token" \in DOMAIN futures[i].request.arguments.value
          /\ futures[i].request.arguments.value.github_token = <<"tokM">>
          /\ futures[i].call.args.github_token = <<"envL">>

\* The request of a task names none of the five tools, and its arguments
\* decode to an object, so that execute_tool is called with that name
NamesUnknownTool(task) ==
    /\ task.request # NoRequest
    /\ task.request.arguments.json = "object"
    /\ task.request.name \notin {"get_repo_info", "read_file", "list_directory",
                                 "list_tree", "search_code"}

\* C13: execute_tool called with a name that is none of get_repo_info,
\* read_file, list_directory, list_tree, search_code raises the unknown-tool
\* error and makes no adapter call (the task is never executing an adapter
\* operation); the task returns an error-text tool message for its request,
\* and that message is what the loop appends when it collects the task.
C13_UnknownTool ==
    /\ [](\A i \in DOMAIN futures :
             NamesUnknownTool(futures[i]) =>
                /\ futures[i].st = "done"
                /\ futures[i].failed
                /\ futures[i].call = [kind |-> "raise", error |-> "Unknown tool"]
                /\ futures[i].ret =
                      [kind |-> "message",
                       message |-> [role |-> "tool", tool_call_id |-> futures[i].req,
                                    content |-> ErrorText]])
    /\ [][\A i \in DOMAIN futures :
             ( /\ NamesUnknownTool(futures[i])
               /\ i \in DOMAIN futures'
               /\ futures'[i].st = "yielded" ) =>
                 /\ messages' = Append(messages,
                        [role |-> "tool", tool_call_id |-> futures[i].req,
                         content |-> ErrorText])
                 /\ pc' = pc
                 /\ outcome' = outcome]_vars

\* C13 witness: a request for the tool READ_FILE, with arguments read_file
\* would accept, has failed with the unknown-tool error while another call of
\* the round is executing.
C13_Witness ==
    \E i, j \in DOMAIN futures :
       /\ NamesUnknownTool(futures[i])
       /\ futures[i].request.name = "READ_FILE"
       /\ futures[i].call.kind = "raise"
       /\ futures[i].st = "done"
       /\ futures[j].st = "running"

\* The path of the URL has no second segment: no owner, or no repository
Malformed(url) == SegmentAt(url.path, 2) = <<>>

\* C14: with a malformed repository URL ask raises the invalid-URL error as
\* its first step and does nothing after it: no completion request, no
\* default-branch lookup, no conversation, no tool dispatch, and no further
\* step of any kind.
C14_MalformedUrlRaises ==
    (Malformed(repo_url) /\ pc # "start") =>
        /\ pc = "raised"
        /\ outcome = [kind |-> "raise", error |-> "ValueError: Invalid URL"]
        /\ completions = 0
        /\ lookups = 0
        /\ repo_info = NoInfo
        /\ messages = <<>>
        /\ futures = <<>>
        /\ iteration = 0
        /\ ~ENABLED Next

\* C14 witness: ask has raised for the GitLab URL with the path /o/.
C14_Witness ==
    /\ pc = "raised"
    /\ platform = "gitlab"
    /\ repo_url.path = <<"/", "o", "/">>
    /\ Malformed(repo_url)

\* C15: a completion request that fails ends ask with the raised error, in
\* whatever round.  A request has no response only while it is awaited or when
\* ask has raised its error; the loop never goes on with a request unanswered
\* (no retry); and once the error is raised the request that failed is the
\* last one, no task of any round is waiting or executing, and ask takes no
\* further step.
C15_CompletionFailurePropagates ==
    /\ InFlight \in {0, 1}
    /\ InFlight = 1 => pc \in {"completion", "raised"}
    /\ (pc = "raised" /\ InFlight = 1) =>
          outcome = [kind |-> "raise", error |-> "completion"]
    /\ outcome = [kind |-> "raise", error |-> "completion"] =>
          /\ pc = "raised"
          /\ InFlight = 1
          /\ completions = iteration + 1
          /\ completions <= max_iterations
          /\ \A i \in DOMAIN futures : futures[i].st = "yielded"
          /\ \A k \in RoundStarts : Answered(k)
          /\ ~ENABLED Next

\* C15 witness: the second completion request, sent after a round of tool
\* calls, has failed and ask has raised.
C15_Witness ==
    /\ outcome = [kind |-> "raise", error |-> "completion"]
    /\ completions = 2
    /\ Cardinality(RoundStarts) = 1
    /\ futures # <<>>

\* The documented example: --llm-temperature 0.5 --llm-max-tokens 4000
ExampleOverrides ==
    <<LlmOption(<<"temperature">>), <<"0", ".", "5">>,
      LlmOption(<<"max", "-", "tokens">>), <<"4", "0", "0", "0">>>>

\* The command line ends with the documented example
HasExample ==
    /\ Len(argv) >= Len(ExampleOverrides)
    /\ SubSeq(argv, Len(argv) - Len(ExampleOverrides) + 1, Len(argv)) = ExampleOverrides

\* {temperature: 0.5 (float), max_tokens: 4000 (int)}
ExampleMap ==
    [k \in {<<"temperature">>, <<"max", "_", "tokens">>} |->
        IF k = <<"temperature">>
        THEN [type |-> "float", negative |-> FALSE, digits |-> 5, decimals |-> 1]
        ELSE [type |-> "int", value |-> 4000]]

\* C16: the arguments --llm-temperature 0.5 --llm-max-tokens 4000 give the
\* overrides {temperature: 0.5 (float), max_tokens: 4000 (int)}, and the
\* completion configuration is the defaults with every override in the place
\* of the default of its key: model, tools and parallel_tool_calls as they
\* were, temperature and max_tokens added.
C16_Original ==
    (HasExample /\ cli_pc \notin {"parse", "argparse"}) =>
        /\ llm_config = ExampleMap
        /\ cli_pc = "ask" =>
              /\ DOMAIN llm_params = DOMAIN DefaultParams \cup DOMAIN ExampleMap
              /\ \A k \in DOMAIN ExampleMap : llm_params[k] = ExampleMap[k]
              /\ \A k \in DOMAIN DefaultParams : llm_params[k] = DefaultParams[k]

\* The first two arguments are the positional ones, and --max-iterations,
\* where given, has a number for its value
WellFormedArgv ==
    /\ Len(argv) >= 2
    /\ ~StartsWith(argv[1], DashDash)
    /\ ~StartsWith(argv[2], DashDash)
    /\ \A n \in DOMAIN argv :
          argv[n] = Option("max-iterations") =>
             /\ n < Len(argv)
             /\ argv[n + 1] # <<>>
             /\ \A m \in DOMAIN argv[n + 1] : argv[n + 1][m] \in DecimalChars

\* C17: a run with well-formed arguments ends in one of two ways: ask has
\* returned, the answer is the one line printed and the exit code is 0; or
\* something raised, in the handling of the --llm-* values or inside ask,
\* the one line printed is "Error: <message>" and the exit code is 1.
C17_Original ==
    (WellFormedArgv /\ cli_pc = "exited") =>
        \/ /\ exit_code = 0
           /\ pc = "returned"
           /\ stdout = <<outcome.value>>
        \/ /\ exit_code = 1
           /\ Len(stdout) = 1
           /\ Head(stdout[1]) = "Error: "

\* A value string that is a number: a sign or none, then decimal digits
\* around at most one point, one digit at least
IsNumberText(text) ==
    LET body == IF text # <<>> /\ Head(text) = "-" THEN Tail(text) ELSE text
    IN  /\ \A n \in DOMAIN body : body[n] \in DecimalChars \cup {"."}
        /\ Cardinality({n \in DOMAIN body : body[n] = "."}) <= 1
        /\ \E n \in DOMAIN body : body[n] \in DecimalChars

IsDecimalChar(c) == c \in DecimalChars

\* The typed value of a value string, as the claim has it
TypedValue(text) ==
    IF text \in {<<"true">>, <<"TRUE">>, <<"True">>, <<"tRuE">>}
    THEN [type |-> "bool", value |-> TRUE]
    ELSE IF text \in {<<"false">>, <<"FALSE">>, <<"False">>}
    THEN [type |-> "bool", value |-> FALSE]
    ELSE IF IsNumberText(text)
    THEN LET digits == Number(SelectSeq(text, IsDecimalChar))
         IN  IF \E n \in DOMAIN text : text[n] = "."
             THEN [type |-> "float", negative |-> Head(text) = "-",
                   digits |-> digits,
                   decimals |-> Len(text) - CHOOSE n \in DOMAIN text : text[n] = "."]
             ELSE [type |-> "int",
                   value |-> IF Head(text) = "-" THEN 0 - digits ELSE digits]
    ELSE [type |-> "str", value |-> text]

\* The command line is one pair --llm-<key> <value>
OnePair ==
    /\ Len(argv) = 2
    /\ StartsWith(argv[1], LlmPrefix)
    /\ ~StartsWith(argv[2], DashDash)

\* C18: parse_llm_args gives every pair --llm-<key> <value> a typed value:
\* it does not raise, whatever the value string, and the override of the key
\* is the boolean for true/false in any letter case, the int or the float for
\* a number, signed or not, and the string itself for every other value.
C18_Original ==
    (OnePair /\ cli_pc # "parse") =>
        /\ cli_pc = "argparse"
        /\ exit_code = None
        /\ llm_config =
              [k \in {SubSeq(argv[1], Len(LlmPrefix) + 1, Len(argv[1]))} |->
                  TypedValue(argv[2])]

-----------------------------------------------------------------------------
(* The tree listing without the model: list_tree of __init__.py, lines
   335-363, github.list_tree and gitlab.list_tree *)

MaxPages == 3
MaxPageItems == 1

\* The entries a platform serves: more keys than the two list_tree keeps
TreeItems ==
    { [id |-> "1", path |-> "a", type |-> "blob"],
      [id |-> "2", path |-> "b", type |-> "tree"] }

\* A page of the GitLab tree endpoint: its JSON list and whether the response
\* carries a non-empty x-next-page header
TreePages ==
    { [items |-> its, next |-> n] : its \in SeqsUpTo(TreeItems, MaxPageItems),
                                    n \in BOOLEAN }

\* [{"path": item["path"], "type": item["type"]} for item in ...]
RECURSIVE Project(_)
Project(items) ==
    IF items = <<>> THEN <<>>
    ELSE <<[path |-> Head(items).path, type |-> Head(items).type]>>
         \o Project(Tail(items))

\* What the GitLab endpoint answers for page p: a page past the last is []
ServedItems(p) == IF p \in DOMAIN server THEN server[p].items ELSE <<>>
ServedNext(p) == p \in DOMAIN server /\ server[p].next

\* The repository URLs of the tree listing
UrlsTree ==
    { Url(<<"github.com">>, <<"/", "o", "/", "r", "/", "tree", "/", "dev">>),
      Url(<<"gitlab.com">>, <<"/", "o", "/", "r", "/", "-", "/", "tree", "/", "dev">>),
      Url(<<"gitlab.com">>, <<"/", "o", "/", "r">>),
      Url(<<"gitlab.com">>, <<"/", "o">>) }

\* list_tree(repo_url) about to run.  GitHub answers one request: its JSON
\* has the key "tree" when server has its one page
InitTree ==
    /\ repo_url \in UrlsTree
    /\ max_iterations = DefaultMaxIterations
    /\ max_workers = DefaultMaxWorkers
    /\ token = None
    /\ github_token = None
    /\ env = [GITHUB_TOKEN |-> None, GITLAB_TOKEN |-> <<"envL">>]
    /\ server \in IF DetectPlatform(repo_url) = "github"
                  THEN {pages \in SeqsUpTo(TreePages, 1) :
                            \A p \in DOMAIN pages : ~pages[p].next}
                  ELSE SeqsUpTo(TreePages, MaxPages)
    /\ page = 1
    /\ all_items = <<>>
    /\ requested = <<>>
    /\ pc = "list_tree"
    /\ platform = "unset"
    /\ owner = None
    /\ repo = None
    /\ ref = None
    /\ auth_token = None
    /\ messages = <<>>
    /\ iteration = 0
    /\ repo_info = NoInfo
    /\ message = NoMessage
    /\ futures = <<>>
    /\ outcome = NoOutcome
    /\ lookups = 0
    /\ completions = 0
    /\ NoCli

\* What no step of list_tree changes
TreeFixed ==
    <<repo_url, max_iterations, max_workers, token, github_token, env, cli,
      server, messages, iteration, message, futures, completions>>

\* list_tree, lines 349-360: detect_platform, parse_repo_url, _get_auth_token
\* and _get_ref up to its get_repo_info call
TreeResolve ==
    /\ pc = "list_tree"
    /\ LET plat   == DetectPlatform(repo_url)
           parsed == ParseRepoUrl(plat, repo_url)
       IN  /\ platform' = plat
           /\ IF ~parsed.ok
              THEN /\ Raise("ValueError: Invalid URL")
                   /\ UNCHANGED <<owner, repo, ref, auth_token, lookups>>
              ELSE /\ owner' = parsed.owner
                   /\ repo' = parsed.repo
                   /\ auth_token' = GetAuthToken(plat, token, None, env)
                   /\ ref' = parsed.ref
                   /\ UNCHANGED outcome
                   /\ IF parsed.ref = None
                      THEN /\ pc' = "tree_lookup"
                           /\ lookups' = lookups + 1
                      ELSE /\ pc' = "tree_call"
                           /\ UNCHANGED lookups
    /\ UNCHANGED <<TreeFixed, repo_info, page, all_items, requested>>

\* module.get_repo_info returns in _get_ref
TreeLookupReturns ==
    /\ pc = "tree_lookup"
    /\ \E info \in RepoInfos :
          /\ repo_info' = info
          /\ ref' = DefaultBranch(info)
    /\ pc' = "tree_call"
    /\ UNCHANGED <<TreeFixed, platform, owner, repo, auth_token, outcome, lookups,
                   page, all_items, requested>>

\* module.get_repo_info raises in _get_ref
TreeLookupRaises ==
    /\ pc = "tree_lookup"
    /\ Raise("HTTPError: get_repo_info")
    /\ UNCHANGED <<TreeFixed, context, lookups, page, all_items, requested>>

\* github.list_tree: one GET, data.get("tree", []) projected
GithubListTree ==
    /\ pc = "tree_call"
    /\ platform = "github"
    /\ requested' = Append(requested, 1)
    /\ Return(Project(ServedItems(1)))
    /\ UNCHANGED <<TreeFixed, context, lookups, page, all_items>>

\* A request of the listing fails: response.raise_for_status()
ListTreeRaises ==
    /\ pc = "tree_call"
    /\ requested' = Append(requested, page)
    /\ Raise("HTTPError: list_tree")
    /\ UNCHANGED <<TreeFixed, context, lookups, page, all_items>>

\* A mutant of GitlabListTree: a missing x-next-page header does not end the
\* loop
GitlabListTreeIgnoresHeader ==
    /\ pc = "tree_call"
    /\ platform = "gitlab"
    /\ requested' = Append(requested, page)
    /\ LET data      == ServedItems(page)
           collected == all_items \o data
       IN  IF data = <<>>
           THEN /\ Return(Project(all_items))
                /\ UNCHANGED <<page, all_items>>
           ELSE /\ all_items' = collected
                /\ page' = page + 1
                /\ UNCHANGED <<pc, outcome>>
    /\ UNCHANGED <<TreeFixed, context, lookups>>

\* gitlab.list_tree, one turn of its while True: the GET of page, the break on
\* an empty list, extend, the break on a missing or empty x-next-page header,
\* page += 1; after a break the projection is returned
GitlabListTree ==
    /\ pc = "tree_call"
    /\ platform = "gitlab"
    /\ requested' = Append(requested, page)
    /\ LET data      == ServedItems(page)
           collected == all_items \o data
       IN  IF data = <<>>
           THEN /\ Return(Project(all_items))
                /\ UNCHANGED <<page, all_items>>
           ELSE /\ all_items' = collected
                /\ IF ~ServedNext(page)
                   THEN /\ Return(Project(collected))
                        /\ UNCHANGED page
                   ELSE /\ page' = page + 1
                        /\ UNCHANGED <<pc, outcome>>
    /\ UNCHANGED <<TreeFixed, context, lookups>>

NextTree ==
    \/ TreeResolve
    \/ TreeLookupReturns
    \/ TreeLookupRaises
    \/ GithubListTree
    \/ ListTreeRaises
    \/ GitlabListTree

SpecTree == InitTree /\ [][NextTree]_vars

\* The first page that is empty or reports no next page; GitHub serves one
RECURSIVE LastPageFrom(_)
LastPageFrom(p) ==
    IF ServedItems(p) = <<>> \/ ~ServedNext(p) THEN p ELSE LastPageFrom(p + 1)

LastPage == IF platform = "github" THEN 1 ELSE LastPageFrom(1)

\* The items of pages 1..k, in order
RECURSIVE Concatenated(_)
Concatenated(k) ==
    IF k = 0 THEN <<>> ELSE Concatenated(k - 1) \o ServedItems(k)

NoDuplicatePath(items) ==
    \A i, j \in DOMAIN items : items[i].path = items[j].path => i = j

\* What the listing returns is the projection of pages 1..k, each requested
\* once and in order, and no completion request is sent
ReturnsConcatenation ==
    /\ completions = 0
    /\ pc = "returned" =>
          /\ requested = [p \in 1..LastPage |-> p]
          /\ outcome = [kind |-> "return",
                        value |-> Project(Concatenated(LastPage))]

\* C19 as the specification states it: list_tree never sends a completion
\* request, returns exactly the path/type projection of the adapter's pages
\* 1..k, k the first page that is empty or reports no next page, with each
\* page requested once, and the returned sequence has no duplicate path
C19_Original ==
    /\ ReturnsConcatenation
    /\ pc = "returned" => NoDuplicatePath(outcome.value)

\* C19, amended: list_tree never sends a completion request and returns
\* exactly the path/type projection of the adapter's pages 1..k, each page
\* requested once; the returned sequence has no duplicate path when no path
\* occurs twice in those pages (the code concatenates, it does not
\* de-duplicate)
C19_ListTreeConcatenates ==
    /\ ReturnsConcatenation
    /\ (pc = "returned" /\ NoDuplicatePath(Concatenated(LastPage)))
          => NoDuplicatePath(outcome.value)

\* Two pages were requested and both entries came back, each once
C19_Witness ==
    /\ pc = "returned"
    /\ platform = "gitlab"
    /\ requested = <<1, 2>>
    /\ Len(outcome.value) = 2
    /\ NoDuplicatePath(outcome.value)

-----------------------------------------------------------------------------
(* detect_platform on the text of a URL: __init__.py, lines 27-39, with the
   urlparse and hostname of urllib.parse it calls *)

MaxHostLen == 3

\* str.find: the first position of c in text, 0 when there is none
RECURSIVE Find(_, _)
Find(text, c) ==
    IF text = <<>> THEN 0
    ELSE IF Head(text) = c THEN 1
    ELSE LET rest == Find(Tail(text), c)
         IN  IF rest = 0 THEN 0 ELSE rest + 1

\* str.partition(c): the text before the first c, and the text after it
Before(text, c) ==
    IF Find(text, c) = 0 THEN text ELSE SubSeq(text, 1, Find(text, c) - 1)
After(text, c) ==
    IF Find(text, c) = 0 THEN <<>> ELSE SubSeq(text, Find(text, c) + 1, Len(text))

\* str.rpartition(c)[2]: the text after the last c, the whole text without c
RECURSIVE AfterLast(_, _)
AfterLast(text, c) ==
    IF Find(text, c) = 0 THEN text ELSE AfterLast(After(text, c), c)

\* urlsplit: the scheme is split off
AfterScheme(text) ==
    IF text # <<>> /\ Head(text) = "https:" THEN Tail(text) ELSE text

\* urlsplit, _splitnetloc: the authority follows "//" and ends at the first "/"
NetlocOf(text) ==
    LET rest == AfterScheme(text)
    IN  IF rest # <<>> /\ Head(rest) = "//" THEN Before(Tail(rest), "/") ELSE <<>>

\* ipaddress.ip_address accepts the bracketed host as an IPv6 address
IsIPv6(host) == host = <<"::1">>

\* urlsplit raises ValueError: a square bracket without its partner, or a
\* bracketed host that _check_bracketed_host rejects
UrlsplitRaises(text) ==
    LET netloc == NetlocOf(text)
        open   == Find(netloc, "[") # 0
        close  == Find(netloc, "]") # 0
    IN  \/ open /\ ~close
        \/ close /\ ~open
        \/ open /\ close /\ ~IsIPv6(Before(After(netloc, "["), "]"))

\* The hostname property of the parse result: _hostinfo, lower-cased; None
\* when empty, which detect_platform turns into ""
HostnameOf(text) ==
    LET hostinfo == AfterLast(NetlocOf(text), "@")
        name     == IF Find(hostinfo, "[") # 0
                    THEN Before(After(hostinfo, "["), "]")
                    ELSE Before(hostinfo, ":")
    IN  Lower(name)

\* A mutant of detect_platform: gitlab.com is looked for first
detect_platform_gitlab_first(text) ==
    IF UrlsplitRaises(text) THEN [ok |-> FALSE, error |-> "ValueError"]
    ELSE [ok |-> TRUE,
          platform |-> IF Contains(HostnameOf(text), "gitlab.com") THEN "gitlab"
                       ELSE "github"]

\* detect_platform(repo_url) on the text of the URL
detect_platform(text) ==
    IF UrlsplitRaises(text) THEN [ok |-> FALSE, error |-> "ValueError"]
    ELSE [ok |-> TRUE,
          platform |-> DetectPlatform(Url(HostnameOf(text), <<>>))]

\* What an authority is written with
HostAtoms ==
    {"github.com", "gitlab.com", "GitLab.com", "example.org", "@", ":", "[", "]",
     "::1"}

\* The URL texts: with and without a scheme and an authority, and with a
\* path that names a platform
UrlTexts ==
    { prefix \o host \o path :
        prefix \in {<<"https:", "//">>, <<"//">>, <<"https:">>, <<>>},
        host \in SeqsUpTo(HostAtoms, MaxHostLen),
        path \in {<<>>, <<"/", "gitlab.com">>} }

\* detect_platform(repo_url) about to run
InitDetect ==
    /\ repo_url \in UrlTexts
    /\ max_iterations = DefaultMaxIterations
    /\ max_workers = DefaultMaxWorkers
    /\ token = None
    /\ github_token = None
    /\ env = [GITHUB_TOKEN |-> None, GITLAB_TOKEN |-> None]
    /\ pc = "detect_platform"
    /\ platform = "unset"
    /\ owner = None
    /\ repo = None
    /\ ref = None
    /\ auth_token = None
    /\ messages = <<>>
    /\ iteration = 0
    /\ repo_info = NoInfo
    /\ message = NoMessage
    /\ futures = <<>>
    /\ outcome = NoOutcome
    /\ lookups = 0
    /\ completions = 0
    /\ NoCli
    /\ NoTree

\* The call of detect_platform: it returns the platform or urlparse raises
Detect ==
    /\ pc = "detect_platform"
    /\ LET result == detect_platform(repo_url)
       IN  IF result.ok
           THEN /\ platform' = result.platform
                /\ Return(result.platform)
           ELSE /\ Raise(result.error)
                /\ UNCHANGED platform
    /\ UNCHANGED <<inputs, owner, repo, ref, auth_token, repo_info, messages,
                   iteration, message, futures, lookups, completions>>

NextDetect == Detect

SpecDetect == InitDetect /\ [][NextDetect]_vars

\* gitlab exactly when the hostname has gitlab.com and has no github.com
ExpectedPlatform(text) ==
    IF /\ Contains(HostnameOf(text), "gitlab.com")
       /\ ~Contains(HostnameOf(text), "github.com")
    THEN "gitlab"
    ELSE "github"

-----------------------------------------------------------------------------
(* Token resolution: _get_auth_token, lines 136-154, as ask calls it *)

\* What a caller passes as a token and what a variable of the environment
\* holds: nothing, the empty string, a value
Absent == {None, <<>>}

\* ask() about to run, over every way of passing and of exporting a token
InitToken ==
    /\ repo_url \in { Url(<<"github.com">>, <<"/", "o", "/", "r", "/", "tree", "/", "dev">>),
                      Url(<<"gitlab.com">>,
                          <<"/", "o", "/", "r", "/", "-", "/", "tree", "/", "dev">>),
                      Url(<<"gitlab.com">>, <<"/", "o", "/", "r">>),
                      Url(<<"example.org">>, <<"/", "o", "/", "r">>),
                      Url(<<"gitlab.com">>, <<"/", "o">>) }
    /\ max_iterations = DefaultMaxIterations
    /\ max_workers = DefaultMaxWorkers
    /\ token \in Absent \cup {<<"tokA">>}
    /\ github_token \in Absent \cup {<<"tokM">>}
    /\ env \in [GITHUB_TOKEN : Absent \cup {<<"envG">>},
                GITLAB_TOKEN : Absent \cup {<<"envL">>}]
    /\ InitLibrary

NextToken == Resolve \/ LookupReturns \/ LookupRaises

SpecToken == InitToken /\ [][NextToken]_vars

\* A token was passed: token, or the deprecated github_token
Given == IF Truthy(token) THEN token ELSE github_token

\* The variable of the environment that belongs to the platform
PlatformVariable == IF platform = "github" THEN env.GITHUB_TOKEN ELSE env.GITLAB_TOKEN

\* The URL was parsed, so the token has been resolved
TokenResolved ==
    /\ pc # "start"
    /\ outcome # [kind |-> "raise", error |-> "ValueError: Invalid URL"]

\* C21: the token of an invocation is the token passed (token before the
\* deprecated github_token, an empty string counting as not passed);
\* otherwise the value of the variable of the detected platform, never the
\* other platform's; otherwise none
C21_TokenOrder ==
    TokenResolved =>
        IF Truthy(Given) THEN auth_token = Given
        ELSE IF Truthy(PlatformVariable) THEN auth_token = PlatformVariable
        ELSE ~Truthy(auth_token)

\* No token passed, both variables exported, a GitLab repository: GITLAB_TOKEN
C21_Witness ==
    /\ TokenResolved
    /\ platform = "gitlab"
    /\ ~Truthy(Given)
    /\ env = [GITHUB_TOKEN |-> <<"envG">>, GITLAB_TOKEN |-> <<"envL">>]
    /\ auth_token = <<"envL">>

-----------------------------------------------------------------------------
(* Who appends to the conversation, and when: ask, lines 322-330 *)

\* A worker thread moved in this step: a task began to run or ended
WorkerMoved ==
    \E i \in DOMAIN futures \cap DOMAIN futures' :
        /\ futures'[i].st # futures[i].st
        /\ futures'[i].st \in {"running", "done"}

\* No task of the round is waiting for a worker or running
PoolDrained == \A i \in DOMAIN futures : futures[i].st \in {"done", "yielded"}

\* C22 as the specification states it: only the control thread mutates the
\* conversation, and no tool message is appended while a tool call of the
\* round is still waiting or executing
C22_Original ==
    [][messages' # messages =>
          /\ ~WorkerMoved
          /\ pc = "collect" => PoolDrained]_vars

\* C22, amended: only the control thread mutates the conversation; it appends
\* the tool message of a call when as_completed yields that call, which may
\* be while other calls of the round still execute; the next completion
\* request is sent only after every call of the round was yielded
C22_ControlThreadAppends ==
    /\ [][messages' # messages =>
             /\ ~WorkerMoved
             /\ pc = "collect" =>
                   \E i \in DOMAIN futures :
                       /\ futures[i].st = "done"
                       /\ futures'[i].st = "yielded"
                       /\ messages' = Append(messages, futures[i].ret.message)]_vars
    /\ []((pc \in {"loop", "completion"} /\ futures # <<>>) =>
             /\ Len(futures) = Len(message.tool_calls)
             /\ \A i \in DOMAIN futures : futures[i].st = "yielded")

\* A tool message of the round is in the conversation while another call of
\* the round is still executing
C22_Witness ==
    /\ pc = "collect"
    /\ \E i, j \in DOMAIN futures :
          /\ futures[i].st = "yielded"
          /\ futures[j].st = "running"
          /\ \E k \in DOMAIN messages :
                /\ IsToolMessage(messages[k])
                /\ messages[k] = futures[i].ret.message

-----------------------------------------------------------------------------
(* The shape of the conversation: ask, lines 255-330 *)

\* s is a prefix of t
IsPrefix(s, t) == Len(s) <= Len(t) /\ SubSeq(t, 1, Len(s)) = s

\* The tool message at r stands in the round of the assistant message that
\* carries the request it answers
AfterItsRequest(r) ==
    \E k \in RoundStarts :
        /\ r \in RepliesTo(k)
        /\ \E j \in DOMAIN messages[k].tool_calls :
              messages[k].tool_calls[j] = messages[r].tool_call_id

\* C23: the conversation only grows by appending, so each transcript sent has
\* the transcript sent before as a prefix; at every completion request it
\* starts with the system message and the user message, and every tool
\* message stands after the assistant message that carries its request and
\* before the next assistant message
C23_AppendOnlyWellFormed ==
    /\ [][IsPrefix(messages, messages')]_vars
    /\ [](pc = "completion" =>
             /\ Len(messages) >= 2
             /\ messages[1].role = "system"
             /\ messages[2].role = "user"
             /\ \A r \in 3..Len(messages) :
                   /\ messages[r].role \in {"assistant", "tool"}
                   /\ IsToolMessage(messages[r]) => AfterItsRequest(r))

\* The second completion request of an invocation carries a round of two tool
\* messages
C23_Witness ==
    /\ pc = "completion"
    /\ completions = 2
    /\ Cardinality({r \in DOMAIN messages : IsToolMessage(messages[r])}) = 2

-----------------------------------------------------------------------------
(* Termination of ask under fair scheduling: lines 269-332 *)

\* ask() about to run on a repository whose URL names no ref, so that the
\* default-branch lookup is among the adapter calls
InitTermination ==
    /\ repo_url = Url(<<"gitlab.com">>, <<"/", "o", "/", "r">>)
    /\ max_iterations \in 0..MaxIterations
    /\ max_workers \in 0..MaxWorkers
    /\ token = <<"tokA">>
    /\ github_token = None
    /\ env = [GITHUB_TOKEN |-> None, GITLAB_TOKEN |-> None]
    /\ InitLibrary

\* The threads are scheduled, and every call of a collaborator returns or
\* raises: the completion endpoint (within Control), the adapter calls of
\* the tasks, and the default-branch lookup
FairnessAsk ==
    /\ Fairness
    /\ WF_vars(LookupReturnsTrunk \/ LookupRaises)

NextTermination ==
    \/ NextPool
    \/ LookupReturnsTrunk
    \/ LookupRaises

FairAsk == InitTermination /\ [][NextTermination]_vars /\ FairnessAsk

\* C24: when every completion request and every adapter call returns or
\* raises and max_workers >= 1, ask returns or raises, after at most
\* max_iterations completion requests, and the wait of a round ends once
\* every tool call of the round has completed or failed
C24_Terminates ==
    /\ max_workers >= 1 => <>Ended
    /\ [](completions <= max_iterations)
    /\ (pc = "collect" /\ Len(futures) = Len(message.tool_calls) /\ PoolDrained)
          ~> (pc # "collect")

\* The whole budget was spent on rounds of tool calls and ask returned
C24_Witness ==
    /\ pc = "returned"
    /\ max_workers >= 1
    /\ max_iterations = MaxIterations
    /\ completions = max_iterations
    /\ outcome.value = SENTINEL
    /\ lookups = 1

-----------------------------------------------------------------------------
(* What execute_tool does to the arguments: lines 180-211 *)

\* The arguments the request of a task decoded to, and those of its adapter
\* call
Supplied(task) == task.request.arguments.value
Passed(task) == task.call.args

\* C25: the adapter call of a task has the arguments of the model with the
\* token set and, only for read_file, list_directory and list_tree requested
\* without a ref, the resolved ref added; every other argument, owner and
\* repo among them, is passed as supplied, and get_repo_info and search_code
\* are never called with a ref
C25_ArgumentsPassedThrough ==
    \A i \in DOMAIN futures :
        futures[i].st = "running" =>
            LET task == futures[i]
            IN  /\ task.call.op = task.request.name
                /\ DOMAIN Supplied(task) \subseteq DOMAIN Passed(task)
                /\ DOMAIN Passed(task) \subseteq
                      DOMAIN Supplied(task) \cup {"github_token", "ref"}
                /\ \A k \in DOMAIN Supplied(task) \ {"github_token"} :
                      Passed(task)[k] = Supplied(task)[k]
                /\ "ref" \in DOMAIN Passed(task) \ DOMAIN Supplied(task) =>
                      /\ task.request.name \in {"read_file", "list_directory",
                                                "list_tree"}
                      /\ Passed(task).ref = ref
                /\ task.request.name \in {"get_repo_info", "search_code"} =>
                      "ref" \notin DOMAIN Passed(task)

\* A get_repo_info call for another repository than the resolved one runs
\* with the owner the model named and no ref, beside a read_file call that
\* got the resolved ref
C25_Witness ==
    \E i, j \in DOMAIN futures :
        /\ futures[i].st = "running"
        /\ futures[i].request.name = "get_repo_info"
        /\ Passed(futures[i]).owner = <<"x">>
        /\ owner = <<"o">>
        /\ "ref" \notin DOMAIN Passed(futures[i])
        /\ futures[j].st = "running"
        /\ futures[j].request.name = "read_file"
        /\ "ref" \notin DOMAIN Supplied(futures[j])
        /\ Passed(futures[j]).ref = <<"dev">>

-----------------------------------------------------------------------------
(* The partition of the command line by parse_llm_args: cli.py, lines 6-50 *)

MaxArgs == 3

\* What a command line is made of: two --llm-* options, an option of main,
\* a positional argument, a number, and a value that int() rejects
ArgMenu ==
    { LlmOption(<<"k">>), LlmOption(<<"j">>), Option("token"), <<"u">>, <<"1">>,
      <<"1", "-">> }

ArgvPartition == SeqsUpTo(ArgMenu, MaxArgs)

InitPartition == InitMain(ArgvPartition)

SpecPartition == InitPartition /\ [][NextParse]_vars

\* The element at i is a --llm-* flag; it is the element directly after such
\* a flag and does not start with "--"
IsFlag(i) == StartsWith(argv[i], LlmPrefix)
IsValueOfFlag(i) == i > 1 /\ IsFlag(i - 1) /\ ~StartsWith(argv[i], DashDash)

HasValue(i) == i + 1 <= Len(argv) /\ IsValueOfFlag(i + 1)
NameAt(i) == SubSeq(argv[i], Len(LlmPrefix) + 1, Len(argv[i]))

\* The elements that are neither, in the order of the command line
RECURSIVE KeptUpTo(_)
KeptUpTo(n) ==
    IF n = 0 THEN <<>>
    ELSE IF IsFlag(n) \/ IsValueOfFlag(n) THEN KeptUpTo(n - 1)
    ELSE Append(KeptUpTo(n - 1), argv[n])

\* parse_llm_args has returned
Parsed == cli_pc = "argparse"

\* The flag at i is not repeated after i
LastOfItsName(i) ==
    \A m \in (i + 1)..Len(argv) : IsFlag(m) => NameAt(m) # NameAt(i)

\* The elements of the command line are partitioned as stated, and the
\* entries of llm_config are those of the flags
Partitioned ==
    /\ filtered_argv = KeptUpTo(Len(argv))
    /\ DOMAIN llm_config = {NameAt(i) : i \in {m \in DOMAIN argv : IsFlag(m)}}

=============================================================================
